---- MODULE Spec2Model ----
(***************************************************************************)
(* Model of the authentication / session / penalty service of              *)
(* micrified.com-backend (package auth) together with the login and logout *)
(* controllers that drive it.  Every request is handled by its own         *)
(* goroutine; a goroutine is a process of the model and each SyncMap       *)
(* operation, each mutex operation and each clock reading is one step.     *)
(* Time is counted in seconds.                                             *)
(***************************************************************************)
EXTENDS Integers, Sequences, FiniteSets, TLC

VARIABLES
  now,        \* the clock read by time.Now(), in seconds
  rnd,        \* number of draws made from crypto/rand
  boot,       \* main: "config" before auth.NewService, then "serving" or "fatal"
  config,     \* cfg.Auth before auth.NewService, Service.config after it
  penalties,  \* Service.penalties.m : map ip -> Penalty
  sessions,   \* Service.sessions.m  : map username -> Session
  mutex,      \* Service.mutex : the goroutine holding it, or NoProc
  pc,         \* position of each goroutine in its handler
  req,        \* the request a goroutine is serving
  z,          \* local "z Session" of Authenticate / Authorized
  ret,        \* values returned by the auth call of the request
  pen,        \* local (penalty, ok, updated) of Penalised / Penalise
  status,     \* Result.Status of the request
  executed,   \* the request ran its database statements
  latest,     \* history: the session returned by the last successful Authenticate per user
  stamp,      \* history: time of the last creation / renewal of a user's session
  deauthed,   \* history: Deauthenticate ran for the user after the last session creation
  fails,      \* history: failed logins of an address since it last had no penalty entry
  applied,    \* history: the delay (seconds) the last Penalise of an address applied
  since,      \* history: the clock reading of the last Penalise of an address
  timedout,   \* the deadline of the request a goroutine is serving has fired: x.Done() is closed
  arg,        \* the arguments of a call made on the package functions directly
  out         \* what that call has computed so far

vars == <<now, rnd, boot, config, penalties, sessions, mutex, pc, req, z, ret, pen,
          status, executed, latest, stamp, deauthed, fails, applied, since,
          timedout, arg, out>>

(***************************************************************************)
(* Bounds of the model                                                     *)
(***************************************************************************)
MaxTime  == 2
MaxDraws == 2
MaxFailures == 6
MaxPenaltyTime == 4
\* bytes of a Hash: 64 in the program (const HashSize); the model keeps the
\* hash an array of bytes rendered in hex, and shortens it
HashSize == 4

Procs == {"g1", "g2"}
NoProc == "none"
HomeIP == "10.0.0.1"
IPs == {HomeIP, "10.0.0.2"}
KnownUser == "tester"
KnownPassphrase == "password"
KnownSalt == "5dde0511"
Usernames == {KnownUser, "nobody"}
Passphrases == {KnownPassphrase, "guess"}
Periods == {<<>>, <<"1">>}
TickSteps == {1}
PenaltySteps == {1, 2}
LoginClient == "g1"

(***************************************************************************)
(* Program constants                                                       *)
(***************************************************************************)
MinSessionPeriod == 1
MaxSessionPeriod == 3600
StatusOK == 200
StatusNoContent == 204
StatusBadRequest == 400
StatusUnauthorized == 401
StatusTooManyRequests == 429
StatusInternalServerError == 500

TestConfig == [Base |-> 2, Factor |-> 2, Limit |-> 8, Retry |-> 3]

Nil == "nil"
ErrNoSession == "No session for username"
ErrSecretMismatch == "Session secret mismatch"
ErrIPMismatch == "Session IP mismatch"
ErrExpired == "Session expired"
ErrDatabase == "database error"
ErrRand == "rand.Read error"

(***************************************************************************)
(* Hash and its hex rendering                                              *)
(***************************************************************************)
ZeroHash == [i \in 1..HashSize |-> 0]

\* mutant: a source that hands out the same bytes at every draw
RandRead_Constant(n) == [i \in 1..HashSize |-> (i * 7) % 256]

\* the bytes delivered by the n-th successful rand.Read (fresh on every draw)
RandRead(n) == [i \in 1..HashSize |-> (n * 29 + i * 7) % 256]

HexTable == <<"0", "1", "2", "3", "4", "5", "6", "7",
              "8", "9", "a", "b", "c", "d", "e", "f">>

\* hex.EncodeToString: two lowercase digits per byte, high nibble first
EncodeToString(b) ==
  [i \in 1..(2 * Len(b)) |->
     IF i % 2 = 1 THEN HexTable[(b[(i + 1) \div 2] \div 16) + 1]
                  ELSE HexTable[(b[i \div 2] % 16) + 1]]

ToByteSlice(h) == [i \in 1..HashSize |-> h[i]]

HexString(h) == EncodeToString(ToByteSlice(h))

(***************************************************************************)
(* SyncMap: a Go map behind its own mutex; every operation is atomic       *)
(***************************************************************************)
MapHas(m, k) == k \in DOMAIN m
MapPut(m, k, v) == [x \in (DOMAIN m) \cup {k} |-> IF x = k THEN v ELSE m[x]]
MapDelete(m, k) == [x \in (DOMAIN m) \ {k} |-> m[x]]
NewSyncMap == [x \in {} |-> 0]

(***************************************************************************)
(* Session                                                                 *)
(***************************************************************************)
ZeroTime == 0
ZeroSession == [Expiration |-> ZeroTime, Period |-> 0, IP |-> "", Secret |-> ZeroHash]

\* mutant: a session outlives its expiration by one more period
Expired_Late(s, t) == t > s.Expiration + s.Period

Expired(s, t) == t > s.Expiration

\* mutant: the renewal extends the old expiration instead of restarting at t
Renew_FromOld(s, t) == [Expiration |-> s.Expiration + s.Period, Period |-> s.Period,
                        IP |-> s.IP, Secret |-> s.Secret]

Renew(s, t) == [Expiration |-> t + s.Period, Period |-> s.Period,
                IP |-> s.IP, Secret |-> s.Secret]

\* mutant: the expiration is the time of creation
NewSession_NoPeriod(ip, period, t, n) ==
  [Expiration |-> t, Period |-> period, IP |-> ip, Secret |-> RandRead(n)]

NewSession(ip, period, t, n) ==
  [Expiration |-> t + period, Period |-> period, IP |-> ip, Secret |-> RandRead(n)]

(***************************************************************************)
(* Session period: strconv.Atoi and the clamp of Authenticate.             *)
(* An int and a time.Duration are 64-bit integers; the model keeps them as *)
(* a sign and a magnitude written in decimal digits, most significant      *)
(* first and without leading zeros (<<>> is 0), so that the arithmetic of  *)
(* the program, wrap-around included, is computed exactly.                 *)
(***************************************************************************)
Digits == <<"0", "1", "2", "3", "4", "5", "6", "7", "8", "9">>

IsDigit(c) == \E d \in 1..10 : Digits[d] = c

DigitValue(c) == (CHOOSE d \in 1..10 : Digits[d] = c) - 1

\* the digits without leading zeros
Strip(d) ==
  LET nz == {i \in 1..Len(d) : d[i] # 0}
  IN  IF nz = {} THEN <<>>
      ELSE SubSeq(d, CHOOSE i \in nz : \A j \in nz : i <= j, Len(d))

\* a < b, for magnitudes
Less(a, b) ==
  \/ Len(a) < Len(b)
  \/ /\ Len(a) = Len(b)
     /\ \E i \in 1..Len(a) : a[i] < b[i] /\ \A j \in 1..(i - 1) : a[j] = b[j]

\* the borrow that digit i of a - b hands on: the digits after i of a make a
\* smaller number than those of b
Borrow(a, b, i) ==
  IF \E j \in (i + 1)..Len(a) : a[j] < b[j] /\ \A k \in (i + 1)..(j - 1) : a[k] = b[k]
    THEN 1 ELSE 0

\* a - b, for magnitudes a >= b
Sub(a, b) ==
  LET pad == [i \in 1..(Len(a) - Len(b)) |-> 0] \o b
  IN  Strip([i \in 1..Len(a) |-> (a[i] - pad[i] - Borrow(a, pad, i) + 10) % 10])

RECURSIVE Value(_, _)
\* a small magnitude as a number of the model
Value(d, acc) == IF d = <<>> THEN acc ELSE Value(Tail(d), acc * 10 + Head(d))

RECURSIVE Magnitude(_)
\* a number of the model as a magnitude
Magnitude(n) == IF n = 0 THEN <<>> ELSE Append(Magnitude(n \div 10), n % 10)

TwoTo63 == <<9, 2, 2, 3, 3, 7, 2, 0, 3, 6, 8, 5, 4, 7, 7, 5, 8, 0, 8>>
TwoTo64 == <<1, 8, 4, 4, 6, 7, 4, 4, 0, 7, 3, 7, 0, 9, 5, 5, 1, 6, 1, 6>>

\* k * 2^64 for k = 1..10
TwoTo64Times ==
  <<<<1, 8, 4, 4, 6, 7, 4, 4, 0, 7, 3, 7, 0, 9, 5, 5, 1, 6, 1, 6>>,
    <<3, 6, 8, 9, 3, 4, 8, 8, 1, 4, 7, 4, 1, 9, 1, 0, 3, 2, 3, 2>>,
    <<5, 5, 3, 4, 0, 2, 3, 2, 2, 2, 1, 1, 2, 8, 6, 5, 4, 8, 4, 8>>,
    <<7, 3, 7, 8, 6, 9, 7, 6, 2, 9, 4, 8, 3, 8, 2, 0, 6, 4, 6, 4>>,
    <<9, 2, 2, 3, 3, 7, 2, 0, 3, 6, 8, 5, 4, 7, 7, 5, 8, 0, 8, 0>>,
    <<1, 1, 0, 6, 8, 0, 4, 6, 4, 4, 4, 2, 2, 5, 7, 3, 0, 9, 6, 9, 6>>,
    <<1, 2, 9, 1, 2, 7, 2, 0, 8, 5, 1, 5, 9, 6, 6, 8, 6, 1, 3, 1, 2>>,
    <<1, 4, 7, 5, 7, 3, 9, 5, 2, 5, 8, 9, 6, 7, 6, 4, 1, 2, 9, 2, 8>>,
    <<1, 6, 6, 0, 2, 0, 6, 9, 6, 6, 6, 3, 3, 8, 5, 9, 6, 4, 5, 4, 4>>,
    <<1, 8, 4, 4, 6, 7, 4, 4, 0, 7, 3, 7, 0, 9, 5, 5, 1, 6, 1, 6, 0>>>>

\* r mod 2^64, for r < 10 * 2^64
Reduce(r) ==
  IF Less(r, TwoTo64) THEN r
  ELSE Sub(r, TwoTo64Times[CHOOSE k \in 1..9 :
                             ~Less(r, TwoTo64Times[k]) /\ Less(r, TwoTo64Times[k + 1])])

RECURSIVE Mod64(_, _)
\* (r * 10^Len(a) + a) mod 2^64 for r < 2^64, one digit of a at a time
Mod64(a, r) ==
  IF a = <<>> THEN r ELSE Mod64(Tail(a), Reduce(Strip(Append(r, Head(a)))))

\* the 64-bit two's complement integer whose sign is neg and whose magnitude
\* is m modulo 2^64
Wrap(neg, m) ==
  LET u == IF neg /\ m # <<>> THEN Sub(TwoTo64, m) ELSE m
  IN  IF Less(u, TwoTo63) THEN [neg |-> FALSE, mag |-> u]
                          ELSE [neg |-> TRUE, mag |-> Sub(TwoTo64, u)]

\* strconv.Atoi: optional sign, then at least one decimal digit and nothing
\* else; a value outside the 64-bit range is an error as well
Atoi(s) ==
  LET signed == s # <<>> /\ Head(s) \in {"+", "-"}
      body   == IF signed THEN Tail(s) ELSE s
      neg    == signed /\ Head(s) = "-"
  IN  IF body = <<>> \/ \E i \in 1..Len(body) : ~IsDigit(body[i])
        THEN [value |-> [neg |-> FALSE, mag |-> <<>>],
              err   |-> "strconv.Atoi: invalid syntax"]
        ELSE LET mag == Strip([i \in 1..Len(body) |-> DigitValue(body[i])])
             IN  IF (~neg /\ ~Less(mag, TwoTo63)) \/ (neg /\ Less(TwoTo63, mag))
                   THEN [value |-> [neg |-> FALSE, mag |-> <<>>],
                         err   |-> "strconv.Atoi: value out of range"]
                   ELSE [value |-> [neg |-> neg /\ mag # <<>>, mag |-> mag],
                         err   |-> "nil"]

\* a < b, for 64-bit integers
Before(a, b) ==
  IF a.neg # b.neg THEN a.neg
  ELSE IF a.neg THEN Less(b.mag, a.mag) ELSE Less(a.mag, b.mag)

Min(a, b) == IF Before(b, a) THEN b ELSE a
Max(a, b) == IF Before(a, b) THEN b ELSE a

\* time.Second, in nanoseconds: the nine digits that multiplying by it appends
Second == <<0, 0, 0, 0, 0, 0, 0, 0, 0>>

\* whole seconds as a time.Duration
Seconds(n) == [neg |-> FALSE, mag |-> IF n = 0 THEN <<>> ELSE Magnitude(n) \o Second]

\* time.Duration(value) * time.Second: the product, wrapped to 64 bits
TimesSecond(v) == Wrap(v.neg, Mod64(Second, v.mag))

\* the period of the session in whole seconds: the model counts time in
\* seconds, and the clamp leaves at least one second
SessionPeriod(period) ==
  LET r == Atoi(period)
      t == IF r.err = "nil"
             THEN Max(Min(TimesSecond(r.value), Seconds(MaxSessionPeriod)),
                      Seconds(MinSessionPeriod))
             ELSE Seconds(MaxSessionPeriod)
  IN  Value(SubSeq(t.mag, 1, Len(t.mag) - Len(Second)), 0)

(***************************************************************************)
(* Penalty                                                                 *)
(***************************************************************************)
RECURSIVE Pow(_, _)
\* int(math.Pow(float64(f), float64(e))) for the small integers of the model
Pow(f, e) ==
  IF e < 0 THEN (IF f = 1 THEN 1 ELSE 0)
  ELSE IF e = 0 THEN 1 ELSE f * Pow(f, e - 1)

\* mutant: the delay does not grow with the count
penaltyFunc_Flat(i, base, factor, retry) == base

penaltyFunc(i, base, factor, retry) == base * Pow(factor, i - retry)

\* mutant: the count has to exceed Retry before a delay is charged
RefreshDuration_Strict(p, c) ==
  IF p.Count > c.Retry THEN penaltyFunc(p.Count, c.Base, c.Factor, c.Retry) ELSE 0

RefreshDuration(p, c) ==
  IF p.Count >= c.Retry THEN penaltyFunc(p.Count, c.Base, c.Factor, c.Retry) ELSE 0

\* mutant: the count grows at every refresh
Refresh_AlwaysCounts(p, c, t) ==
  [Deadline |-> t + RefreshDuration(p, c), Count |-> p.Count + 1]

Refresh(p, c, t) ==
  LET duration  == RefreshDuration(p, c)
      increment == IF duration < c.Limit THEN 1 ELSE 0
  IN  [Deadline |-> t + duration, Count |-> p.Count + increment]

\* mutant: the first failure is free whatever Retry is
NewPenaltyDuration_Free(c) == 0

NewPenaltyDuration(c) ==
  IF c.Retry = 0 THEN penaltyFunc(0, c.Base, c.Factor, c.Retry) ELSE 0

\* mutant: the first failure is already counted
NewPenalty_Counted(c, t) == [Deadline |-> t + NewPenaltyDuration(c), Count |-> 1]

NewPenalty(c, t) == [Deadline |-> t + NewPenaltyDuration(c), Count |-> 0]

ZeroPenalty == [Deadline |-> ZeroTime, Count |-> 0]

(***************************************************************************)
(* Credentials: SHAKE-256 is an injective function of the hashed data      *)
(***************************************************************************)
\* sha3.ShakeSum256(b, data) overwrites b with the digest of data
ShakeSum256(b, data) == <<"shake256", data>>

ToSecret(digest, salt) == ShakeSum256(salt, digest)

\* mutant: the salt is hashed in place of the digest
Compare_SaltHashed(digest, salt, hash) == ShakeSum256(digest, salt) = hash

Compare(digest, salt, hash) == ShakeSum256(salt, digest) = hash

\* the rows of actor JOIN credential installed by the schema script
Credentials ==
  [u \in {KnownUser} |->
     [Hash |-> ToSecret(KnownPassphrase, KnownSalt), Salt |-> KnownSalt]]

(***************************************************************************)
(* State after construction: NewService(config), no request in flight      *)
(***************************************************************************)
NoRequest == [kind |-> "none", ip |-> "", username |-> "", secret |-> <<>>,
              passphrase |-> "", period |-> <<>>]
\* no direct call of a package function is under way
NoCall == [digest |-> "", salt |-> "", try |-> "", trySalt |-> ""]
NoOutput == [step |-> "none", secret |-> <<>>, ok |-> FALSE]
NoReturn == [ok |-> FALSE, err |-> Nil]
NoLookup == [ok |-> FALSE, penalty |-> ZeroPenalty]
NoPenalise == [ok |-> FALSE, penalty |-> ZeroPenalty, delay |-> 0, at |-> ZeroTime]

\* route.DefaultResult
DefaultResult == StatusOK

\* the secrets a client can present: the hex strings the service hands out
Presentable == {HexString(RandRead(n)) : n \in 1..MaxDraws}

\* the validation its last message words: "1 < Factor"
ValidConfig_FactorAboveOne(c) ==
  ~(c.Retry < 0 \/ c.Base < 1) /\ ~(c.Limit < c.Base) /\ ~(c.Factor <= 1)

ValidConfig(c) ==
  ~(c.Retry < 0 \/ c.Base < 1) /\ ~(c.Limit < c.Base) /\ ~(c.Factor < 1)

NewService(c) ==
  /\ ValidConfig(c)
  /\ boot = "serving"
  /\ config = c
  /\ penalties = NewSyncMap
  /\ sessions = NewSyncMap
  /\ mutex = NoProc

Idle ==
  /\ now = 0
  /\ rnd = 0
  /\ pc = [p \in Procs |-> "idle"]
  /\ req = [p \in Procs |-> NoRequest]
  /\ z = [p \in Procs |-> ZeroSession]
  /\ ret = [p \in Procs |-> NoReturn]
  /\ pen = [p \in Procs |-> NoPenalise]
  /\ status = [p \in Procs |-> DefaultResult]
  /\ executed = [p \in Procs |-> FALSE]
  /\ latest = [u \in Usernames |-> ZeroSession]
  /\ stamp = [u \in Usernames |-> ZeroTime]
  /\ deauthed = [u \in Usernames |-> FALSE]
  /\ fails = [ip \in IPs |-> 0]
  /\ applied = [ip \in IPs |-> 0]
  /\ since = [ip \in IPs |-> ZeroTime]
  /\ timedout = [p \in Procs |-> FALSE]
  /\ arg = NoCall
  /\ out = NoOutput

Init == NewService(TestConfig) /\ Idle

call == <<arg, out>>
service == <<boot, config, penalties, sessions, mutex>>
history == <<latest, stamp, deauthed>>
counted == <<fails, applied, since>>
extra == <<executed, counted>>

(***************************************************************************)
(* sync.Mutex of the service                                               *)
(***************************************************************************)
\* mutant: a Lock that does not wait for the holder
Lock_NoWait(p) == mutex' = p

Lock(p) == mutex = NoProc /\ mutex' = p

Unlock(p) == mutex' = NoProc

\* Lock and the deferred Unlock of a call that returns within one step
LockUnlock(p) == mutex = NoProc /\ mutex' = NoProc

(***************************************************************************)
(* The clock                                                               *)
(***************************************************************************)
Tick(steps, limit) ==
  /\ \E d \in steps : now + d <= limit /\ now' = now + d
  /\ UNCHANGED <<rnd, call, timedout, service, pc, req, z, ret, pen, status, history, extra>>

(***************************************************************************)
(* Service.Authenticate(ip, username, period, f)                           *)
(* The deferred Unlock runs in the step that returns.                      *)
(***************************************************************************)
AuthenticateLock(p) ==
  /\ pc[p] = "authn_lock"
  /\ Lock(p)
  /\ pc' = [pc EXCEPT ![p] = "authn_verify"]
  /\ UNCHANGED <<now, rnd, call, timedout, boot, config, penalties, sessions, req, z, ret, pen, status,
                 history, extra>>

\* the doAuth closure of the login controller: query, Next, Scan, Compare
doAuth(r, dbErr) ==
  IF dbErr THEN [ok |-> FALSE, err |-> ErrDatabase]
  ELSE IF r.username \notin DOMAIN Credentials THEN [ok |-> FALSE, err |-> Nil]
  ELSE [ok  |-> Compare(r.passphrase, Credentials[r.username].Salt,
                        Credentials[r.username].Hash),
        err |-> Nil]

\* mutant: only an error of the callback ends the call
Refused_ErrorOnly(r) == r.err # Nil

\* "nil != err || !ok": the callback did not report (true, nil)
Refused(r) == r.err # Nil \/ ~r.ok

\* the callback f handed to Authenticate: doAuth for the login controller,
\* a function that answers (true, nil) at once for a direct caller
Verify(r, dbErr) ==
  IF r.kind = "login" THEN doAuth(r, dbErr) ELSE [ok |-> TRUE, err |-> Nil]

AuthenticateVerify(p) ==
  /\ pc[p] = "authn_verify"
  /\ \E dbErr \in BOOLEAN :
       LET r == Verify(req[p], dbErr)
       IN  /\ ret' = [ret EXCEPT ![p] = r]
           /\ IF Refused(r)
                THEN Unlock(p) /\ pc' = [pc EXCEPT ![p] = "authn_return"]
                ELSE UNCHANGED mutex /\ pc' = [pc EXCEPT ![p] = "authn_session"]
  /\ UNCHANGED <<now, rnd, call, timedout, boot, config, penalties, sessions, req, z, pen, status,
                 history, extra>>

\* mutant: a session already registered for the username is kept
Register_KeepOld(m, username, s) == IF MapHas(m, username) THEN m ELSE MapPut(m, username, s)

\* "register if no error": the new session replaces the one of the username
Register(m, username, s) == MapPut(m, username, s)

AuthenticateSession(p) ==
  /\ pc[p] = "authn_session"
  /\ \/ \* rand.Read fails: NewSession returns (Session{}, err), nothing is stored
        /\ z' = [z EXCEPT ![p] = ZeroSession]
        /\ ret' = [ret EXCEPT ![p].err = ErrRand]
        /\ UNCHANGED <<rnd, sessions, history>>
     \/ LET t == SessionPeriod(req[p].period)
            s == NewSession(req[p].ip, t, now, rnd + 1)
        IN  /\ rnd' = rnd + 1
            /\ z' = [z EXCEPT ![p] = s]
            /\ sessions' = Register(sessions, req[p].username, s)
            /\ latest' = [latest EXCEPT ![req[p].username] = s]
            /\ stamp' = [stamp EXCEPT ![req[p].username] = now]
            /\ deauthed' = [deauthed EXCEPT ![req[p].username] = FALSE]
            /\ UNCHANGED ret
  /\ Unlock(p)
  /\ pc' = [pc EXCEPT ![p] = "authn_return"]
  /\ UNCHANGED <<now, call, timedout, boot, config, penalties, req, pen, status, extra>>

(***************************************************************************)
(* Service.Authorized(ip, username, secret)                                *)
(* The local z is kept only while it is live: between the Get and the Put. *)
(***************************************************************************)
\* mutant: the address is checked before the secret
AuthorizedCheck_Swapped(r, m, t) ==
  IF ~MapHas(m, r.username) THEN ErrNoSession
  ELSE IF r.ip # m[r.username].IP THEN ErrIPMismatch
  ELSE IF r.secret # HexString(m[r.username].Secret) THEN ErrSecretMismatch
  ELSE IF Expired(m[r.username], t) THEN ErrExpired
  ELSE Nil

\* the four checks made on the session read from the map, in their order
AuthorizedCheck(r, m, t) ==
  IF ~MapHas(m, r.username) THEN ErrNoSession
  ELSE IF r.secret # HexString(m[r.username].Secret) THEN ErrSecretMismatch
  ELSE IF r.ip # m[r.username].IP THEN ErrIPMismatch
  ELSE IF Expired(m[r.username], t) THEN ErrExpired
  ELSE Nil

\* mutant: a refused call removes the session it found expired
Refusal_DropsExpired(m, r, e) == IF e = ErrExpired THEN MapDelete(m, r.username) ELSE m

\* the map after a check failed: each failing branch is "return fmt.Errorf",
\* with no Put and no Delete
Refusal(m, r, e) == m

\* Lock, Get and the checks
AuthorizedGet(p) ==
  /\ pc[p] = "authz_lock"
  /\ LET e == AuthorizedCheck(req[p], sessions, now)
     IN  /\ sessions' = IF e = Nil THEN sessions ELSE Refusal(sessions, req[p], e)
         /\ z' = [z EXCEPT ![p] = IF e = Nil THEN sessions[req[p].username]
                                               ELSE ZeroSession]
         /\ ret' = [ret EXCEPT ![p] = [ok |-> e = Nil, err |-> e]]
         /\ IF e = Nil
              THEN Lock(p) /\ pc' = [pc EXCEPT ![p] = "authz_renew"]
              ELSE LockUnlock(p) /\ pc' = [pc EXCEPT ![p] = "authz_return"]
  /\ UNCHANGED <<now, rnd, call, timedout, boot, config, penalties, req, pen, status, history, extra>>

AuthorizedRenew(p) ==
  /\ pc[p] = "authz_renew"
  /\ sessions' = MapPut(sessions, req[p].username, Renew(z[p], now))
  /\ stamp' = [stamp EXCEPT ![req[p].username] = now]
  /\ z' = [z EXCEPT ![p] = ZeroSession]
  /\ Unlock(p)
  /\ pc' = [pc EXCEPT ![p] = "authz_return"]
  /\ UNCHANGED <<now, rnd, call, timedout, boot, config, penalties, req, ret, pen, status,
                 latest, deauthed, extra>>

(***************************************************************************)
(* Service.Deauthenticate(username): one Delete, outside the service mutex *)
(***************************************************************************)
\* mutant: a Deauthenticate that leaves the map as it is
Deauthenticate_NoDelete(username) ==
  /\ sessions' = sessions
  /\ deauthed' = [deauthed EXCEPT ![username] = TRUE]
  /\ stamp' = [stamp EXCEPT ![username] = ZeroTime]

Deauthenticate(username) ==
  /\ sessions' = MapDelete(sessions, username)
  /\ deauthed' = [deauthed EXCEPT ![username] = TRUE]
  /\ stamp' = [stamp EXCEPT ![username] = ZeroTime]

(***************************************************************************)
(* Service.Penalised / Penalise / NoPenalty                                *)
(***************************************************************************)
\* penalties.Get(ip) as the pair (penalty, ok)
PenaltyGet(m, ip) ==
  IF MapHas(m, ip) THEN [ok |-> TRUE, penalty |-> m[ip]] ELSE NoLookup

\* mutant: an address is still penalised at the instant of its deadline
Penalised_Inclusive(m, ip, t) ==
  LET l == PenaltyGet(m, ip) IN l.ok /\ t <= l.penalty.Deadline

Penalised(m, ip, t) ==
  LET l == PenaltyGet(m, ip) IN l.ok /\ t < l.penalty.Deadline

\* mutant: an entry whose deadline has passed counts as no entry
Penalise_Restart(l, c, t) ==
  IF l.ok /\ t < l.penalty.Deadline THEN Refresh(l.penalty, c, t) ELSE NewPenalty(c, t)

\* the value Penalise computes from the entry read, before it Puts it
Penalise(l, c, t) == IF l.ok THEN Refresh(l.penalty, c, t) ELSE NewPenalty(c, t)

\* mutant: NoPenalty waits until the mutex of the service is free
NoPenalty_Locked(ip) ==
  /\ mutex = NoProc
  /\ penalties' = MapDelete(penalties, ip)
  /\ fails' = [fails EXCEPT ![ip] = 0]
  /\ applied' = [applied EXCEPT ![ip] = 0]
  /\ since' = [since EXCEPT ![ip] = ZeroTime]

NoPenalty(ip) ==
  /\ penalties' = MapDelete(penalties, ip)
  /\ fails' = [fails EXCEPT ![ip] = 0]
  /\ applied' = [applied EXCEPT ![ip] = 0]
  /\ since' = [since EXCEPT ![ip] = ZeroTime]

(***************************************************************************)
(* login Controller.Post                                                   *)
(***************************************************************************)
\* the requests in flight that will draw a secret, and those that will fail
InFlight == {q \in Procs : req[q].kind = "login" /\ pc[q] \notin {"idle", "done"}}
Verifies(r) == doAuth(r, FALSE).ok
Drawing == {q \in InFlight : Verifies(req[q])}
Failing(ip) == {q \in InFlight : ~Verifies(req[q]) /\ req[q].ip = ip}

\* the bounds of the model on the logins it admits
Admitted(r) ==
  IF Verifies(r) THEN rnd + Cardinality(Drawing) < MaxDraws
                 ELSE fails[r.ip] + Cardinality(Failing(r.ip)) < MaxFailures

LoginRequests(ips, usernames, passphrases, periods) ==
  {[kind |-> "login", ip |-> ip, username |-> u, secret |-> <<>>,
    passphrase |-> pw, period |-> t] :
     ip \in ips, u \in usernames, pw \in passphrases, t \in periods}

\* mutant: an attempt made during the penalty is penalised again
TryAgainLater_Escalates(m, ip, c, t) == MapPut(m, ip, Penalise(PenaltyGet(m, ip), c, t))

\* the penalties after "if Penalised(ip) { return 429 }": Penalised is a
\* Get and a comparison, and the method returns at once
TryAgainLater(m, ip, c, t) == m

\* arrival of the request, ExpectJSON and the Penalised check
LoginPost(p, requests) ==
  /\ pc[p] = "idle"
  /\ \E r \in requests :
       \/ \* ExpectJSON fails: nothing of the body is decoded
          /\ req' = [req EXCEPT ![p] = [NoRequest EXCEPT !.kind = r.kind, !.ip = r.ip]]
          /\ status' = [status EXCEPT ![p] = StatusBadRequest]
          /\ pc' = [pc EXCEPT ![p] = "done"]
          /\ UNCHANGED penalties
       \/ /\ Penalised(penalties, r.ip, now)
          /\ penalties' = TryAgainLater(penalties, r.ip, config, now)
          /\ req' = [req EXCEPT ![p] = r]
          /\ status' = [status EXCEPT ![p] = StatusTooManyRequests]
          /\ pc' = [pc EXCEPT ![p] = "done"]
       \/ /\ ~Penalised(penalties, r.ip, now)
          /\ Admitted(r)
          /\ req' = [req EXCEPT ![p] = r]
          /\ pc' = [pc EXCEPT ![p] = "authn_lock"]
          /\ UNCHANGED <<status, penalties>>
  /\ UNCHANGED <<now, rnd, call, timedout, boot, config, sessions, mutex, z, ret, pen, history, extra>>

\* mutant: an error of Authenticate is handled like bad credentials
Outcome_ErrorIsBad(r) == IF r.ok /\ r.err = Nil THEN "ok" ELSE "bad credentials"

\* the branch the controller takes on (ok, err): "err != nil", then "if ok"
Outcome(r) == IF r.err # Nil THEN "error" ELSE IF r.ok THEN "ok" ELSE "bad credentials"

\* after Authenticate returned: 500, or NoPenalty and 200, or the Get of Penalise
LoginAuthenticated(p) ==
  /\ pc[p] = "authn_return"
  /\ req[p].kind = "login"
  /\ \/ /\ Outcome(ret[p]) = "error"
        /\ status' = [status EXCEPT ![p] = StatusInternalServerError]
        /\ pc' = [pc EXCEPT ![p] = "done"]
        /\ UNCHANGED <<penalties, pen, counted>>
     \/ /\ Outcome(ret[p]) = "ok"
        /\ NoPenalty(req[p].ip)
        /\ pc' = [pc EXCEPT ![p] = "done"]
        /\ UNCHANGED <<status, pen>>
     \/ /\ Outcome(ret[p]) = "bad credentials"
        /\ LET l == PenaltyGet(penalties, req[p].ip)
               u == Penalise(l, config, now)
           IN  pen' = [pen EXCEPT ![p] = [ok |-> l.ok, penalty |-> u,
                                          delay |-> u.Deadline - now,
                                          at |-> now]]
        /\ pc' = [pc EXCEPT ![p] = "penalise_put"]
        /\ UNCHANGED <<penalties, status, counted>>
  /\ UNCHANGED <<now, rnd, call, timedout, boot, config, sessions, mutex, req, z, ret, history, executed>>

\* the Put of Penalise, and the 401
LoginPenalisePut(p) ==
  /\ pc[p] = "penalise_put"
  /\ penalties' = MapPut(penalties, req[p].ip, pen[p].penalty)
  /\ fails' = [fails EXCEPT ![req[p].ip] = @ + 1]
  /\ applied' = [applied EXCEPT ![req[p].ip] = pen[p].delay]
  /\ since' = [since EXCEPT ![req[p].ip] = pen[p].at]
  /\ status' = [status EXCEPT ![p] = StatusUnauthorized]
  /\ pc' = [pc EXCEPT ![p] = "done"]
  /\ UNCHANGED <<now, rnd, call, timedout, boot, config, sessions, mutex, req, z, ret, pen, history, executed>>

(***************************************************************************)
(* logout Controller.Post, and the authorized requests of the blog and     *)
(* static controllers (POST, PUT, DELETE)                                  *)
(***************************************************************************)
FrameRequests(kinds, ips, usernames, secrets) ==
  {[kind |-> k, ip |-> ip, username |-> u, secret |-> x, passphrase |-> "",
    period |-> <<>>] : k \in kinds, ip \in ips, u \in usernames, x \in secrets}

FramePost(p, requests) ==
  /\ pc[p] = "idle"
  /\ \E r \in requests :
       \/ \* ExpectJSON fails: nothing of the body is decoded
          /\ req' = [req EXCEPT ![p] = [NoRequest EXCEPT !.kind = r.kind, !.ip = r.ip]]
          /\ status' = [status EXCEPT ![p] = StatusBadRequest]
          /\ pc' = [pc EXCEPT ![p] = "done"]
       \/ /\ req' = [req EXCEPT ![p] = r]
          /\ pc' = [pc EXCEPT ![p] = "authz_lock"]
          /\ UNCHANGED status
  /\ UNCHANGED <<now, rnd, call, timedout, service, z, ret, pen, history, extra>>

\* logout, after Authorized returned: 401, or Deauthenticate and 204
LogoutAuthorized(p) ==
  /\ pc[p] = "authz_return"
  /\ req[p].kind = "logout"
  /\ \/ /\ ret[p].err # Nil
        /\ status' = [status EXCEPT ![p] = StatusUnauthorized]
        /\ UNCHANGED <<sessions, deauthed, stamp>>
     \/ /\ ret[p].err = Nil
        /\ Deauthenticate(req[p].username)
        /\ status' = [status EXCEPT ![p] = StatusNoContent]
  /\ pc' = [pc EXCEPT ![p] = "done"]
  /\ UNCHANGED <<now, rnd, call, timedout, boot, config, penalties, mutex, req, z, ret, pen, latest, extra>>

\* mutant: the statements run whatever Authorized returned
Permitted_Always(r) == TRUE

\* "if err = Authorized(...); nil != err { return 401 }": the method goes on
\* to its database statements only with a nil error
Permitted(r) == r.err = Nil

\* blog / static, after Authorized returned: 401, or the database statements
BlogAuthorized(p) ==
  /\ pc[p] = "authz_return"
  /\ req[p].kind = "blog"
  /\ \/ /\ ret[p].err # Nil
        /\ status' = [status EXCEPT ![p] = StatusUnauthorized]
        /\ UNCHANGED executed
     \/ /\ Permitted(ret[p])
        /\ executed' = [executed EXCEPT ![p] = TRUE]
        /\ \/ status' = [status EXCEPT ![p] = StatusInternalServerError]
           \/ UNCHANGED status
  /\ pc' = [pc EXCEPT ![p] = "done"]
  /\ UNCHANGED <<now, rnd, call, timedout, service, req, z, ret, pen, history, counted>>

(***************************************************************************)
(* The response is written and the goroutine serves the next request       *)
(***************************************************************************)
Respond(p) ==
  /\ pc[p] = "done"
  /\ pc' = [pc EXCEPT ![p] = "idle"]
  /\ req' = [req EXCEPT ![p] = NoRequest]
  /\ z' = [z EXCEPT ![p] = ZeroSession]
  /\ ret' = [ret EXCEPT ![p] = NoReturn]
  /\ pen' = [pen EXCEPT ![p] = NoPenalise]
  /\ status' = [status EXCEPT ![p] = DefaultResult]
  /\ executed' = [executed EXCEPT ![p] = FALSE]
  /\ timedout' = [timedout EXCEPT ![p] = FALSE]
  /\ UNCHANGED <<now, rnd, call, service, history, counted>>

(***************************************************************************)
(* Spec: concurrent requests of a client that knows its passphrase and     *)
(* logs in from its home address; its frames arrive from any address.      *)
(***************************************************************************)
SessionLogins == LoginRequests({HomeIP}, {KnownUser}, {KnownPassphrase}, Periods)
SessionFrames == FrameRequests({"logout", "blog"}, IPs, {KnownUser}, Presentable)

Next ==
  \/ Tick(TickSteps, MaxTime)
  \/ \E p \in Procs : LoginPost(p, SessionLogins)
  \/ \E p \in Procs : AuthenticateLock(p)
  \/ \E p \in Procs : AuthenticateVerify(p)
  \/ \E p \in Procs : AuthenticateSession(p)
  \/ \E p \in Procs : LoginAuthenticated(p)
  \/ \E p \in Procs : FramePost(p, SessionFrames)
  \/ \E p \in Procs : AuthorizedGet(p)
  \/ \E p \in Procs : AuthorizedRenew(p)
  \/ \E p \in Procs : LogoutAuthorized(p)
  \/ \E p \in Procs : BlogAuthorized(p)
  \/ \E p \in Procs : Respond(p)

Spec == Init /\ [][Next]_vars

(***************************************************************************)
(* Properties of the sessions, checked under Spec                          *)
(***************************************************************************)
\* a goroutine is between the Lock and the Unlock of Authenticate / Authorized
InAuthenticate(p) == pc[p] \in {"authn_verify", "authn_session"}
InAuthorized(p) == pc[p] = "authz_renew"
InCritical(p) == InAuthenticate(p) \/ InAuthorized(p)

\* the step in which the Authorized call of p reads the session and decides
AuthorizedDecides(p) == pc[p] = "authz_lock" /\ pc'[p] # "authz_lock"

\* C1: at any instant at most one call is inside the critical section of
\* Authenticate (verify callback included) or of Authorized.
C1_MutualExclusion == Cardinality({p \in Procs : InCritical(p)}) <= 1

\* one call is inside the verify callback while another call waits for the mutex
C1_Witness ==
  \E p, q \in Procs :
    pc[p] = "authn_verify" /\ pc[q] \in {"authn_lock", "authz_lock"}

\* the call of p presents the address, the username and the hex secret of the
\* session the last successful Authenticate returned for the username, no
\* Deauthenticate came after it, and the session period has not elapsed
RoundTripCall(p) ==
  LET u == req[p].username
  IN  /\ latest[u] # ZeroSession
      /\ ~deauthed[u]
      /\ req[p].ip = latest[u].IP
      /\ req[p].secret = HexString(latest[u].Secret)
      /\ now < stamp[u] + latest[u].Period

\* C2: session round-trip: an Authorized call with the address, username and
\* hex secret of the session Authenticate returned, made before the period
\* has elapsed and with no later Authenticate or Deauthenticate, succeeds.
C2_RoundTrip ==
  [][\A p \in Procs : AuthorizedDecides(p) /\ RoundTripCall(p) => ret'[p].err = Nil]_vars

\* a round-trip call has succeeded and is about to renew the session
C2_Witness ==
  \E p \in Procs :
    /\ pc[p] = "authz_renew"
    /\ ret[p].err = Nil
    /\ z[p] = latest[req[p].username]
    /\ req[p].secret = HexString(latest[req[p].username].Secret)

\* what Authorized has to answer in the state it reads, stated from the claim
ExpectedAnswer(p) ==
  LET u == req[p].username
      stored == u \in DOMAIN sessions
  IN  CASE ~stored -> ErrNoSession
        [] stored /\ req[p].secret # HexString(sessions[u].Secret) -> ErrSecretMismatch
        [] stored /\ req[p].secret = HexString(sessions[u].Secret)
                  /\ req[p].ip # sessions[u].IP -> ErrIPMismatch
        [] stored /\ req[p].secret = HexString(sessions[u].Secret)
                  /\ req[p].ip = sessions[u].IP
                  /\ sessions[u].Expiration < now -> ErrExpired
        [] OTHER -> Nil

\* C3: Authorized succeeds iff a session is stored, the secret is the hex
\* string of the stored secret, the address is the stored one and the
\* expiration is not in the past; the failures are reported in the order
\* missing session, secret, address, expiry, each with its own error.
C3_AuthorizedAnswer ==
  [][\A p \in Procs : AuthorizedDecides(p) =>
        /\ ret'[p].err = ExpectedAnswer(p)
        /\ (ret'[p].err = Nil) = (pc'[p] = "authz_renew")
        /\ Cardinality({Nil, ErrNoSession, ErrSecretMismatch, ErrIPMismatch,
                        ErrExpired}) = 5]_vars

\* an address mismatch has been reported to one request, an expiry to another
C3_Witness ==
  \E p, q \in Procs :
    /\ pc[p] = "authz_return" /\ ret[p].err = ErrIPMismatch
    /\ pc[q] \in {"authz_return", "done"} /\ ret[q].err = ErrExpired

\* C4: an Authorized call made once the period of the session has elapsed
\* since its creation or last renewal fails, also with the right secret and
\* address.
C4_Expiry ==
  [][\A p \in Procs :
        LET u == req[p].username
        IN  AuthorizedDecides(p) /\ MapHas(sessions, u)
              /\ now > stamp[u] + sessions[u].Period
            => ret'[p].err # Nil /\ pc'[p] = "authz_return"]_vars

\* a call with the right secret and address has been refused as expired
C4_Witness ==
  \E p \in Procs :
    /\ pc[p] = "authz_return"
    /\ ret[p].err = ErrExpired
    /\ MapHas(sessions, req[p].username)
    /\ req[p].secret = HexString(sessions[req[p].username].Secret)
    /\ req[p].ip = sessions[req[p].username].IP
    /\ now > stamp[req[p].username] + sessions[req[p].username].Period

\* the step in which the Authorized call of p renews the session
AuthorizedRenews(p) == pc[p] = "authz_renew" /\ pc'[p] # "authz_renew"

\* C5: a successful Authorized stores for the username the session it read
\* with expiration = time of the call + period and the same secret, address
\* and period; the expiration does not move backward.
C5_Renewal ==
  [][\A p \in Procs :
        LET u == req[p].username
        IN  AuthorizedRenews(p) =>
              /\ MapHas(sessions', u)
              /\ sessions'[u].Expiration = now + z[p].Period
              /\ sessions'[u].Secret = z[p].Secret
              /\ sessions'[u].IP = z[p].IP
              /\ sessions'[u].Period = z[p].Period
              /\ sessions'[u].Expiration >= z[p].Expiration
              /\ MapHas(sessions, u) => sessions[u] = z[p]]_vars

\* a renewal has moved the expiration beyond the one issued at login
C5_Witness ==
  \E p \in Procs :
    LET u == req[p].username
    IN  /\ pc[p] = "authz_return"
        /\ req[p].kind = "blog"
        /\ ret[p].err = Nil
        /\ MapHas(sessions, u)
        /\ sessions[u].Secret = latest[u].Secret
        /\ sessions[u].Expiration > latest[u].Expiration

\* the answer of the logout controller follows the answer of Authorized
LogoutAnswer(p) ==
  pc[p] = "done" /\ req[p].kind = "logout" /\ status[p] # StatusBadRequest
    => status[p] = (IF ret[p].err = Nil THEN StatusNoContent ELSE StatusUnauthorized)

\* C6: at most one session is valid per username: Authorized succeeds only
\* with the secret of the most recent successful Authenticate, and after a
\* second login it succeeds with the newest secret as long as no
\* Deauthenticate followed that login and the period has not elapsed (a
\* logout with an older secret is answered 401, a logout that is authorized
\* 204).
C6_OneSessionPerUser ==
  [][\A p \in Procs :
        /\ AuthorizedDecides(p) /\ ret'[p].err = Nil
             => req[p].secret = HexString(latest[req[p].username].Secret)
        /\ AuthorizedDecides(p) /\ rnd >= 2 /\ RoundTripCall(p) => ret'[p].err = Nil
        /\ LogoutAnswer(p)']_vars

\* after a second login a logout with the first secret has been answered 401
C6_Witness ==
  \E p \in Procs :
    /\ rnd = 2
    /\ pc[p] = "done" /\ req[p].kind = "logout"
    /\ req[p].secret = HexString(RandRead(1))
    /\ req[p].ip = latest[req[p].username].IP
    /\ latest[req[p].username].Secret = RandRead(2)
    /\ ret[p].err = ErrSecretMismatch
    /\ status[p] = StatusUnauthorized

\* C7: after Deauthenticate(user) every Authorized call for user fails with
\* the no-session error until the next successful Authenticate for user.
C7_NoSessionAfterLogout ==
  [][\A p \in Procs :
        AuthorizedDecides(p) /\ deauthed[req[p].username]
          => ret'[p].err = ErrNoSession]_vars

\* C8: once a Deauthenticate(user) and the Authorized calls for user that ran
\* with it have returned, and no Authenticate followed, no session of user is
\* stored: a renewal never re-inserts what Deauthenticate removed.
C8_LogoutBeatsRenewal ==
  \A u \in Usernames :
    deauthed[u] /\ (\A p \in Procs : ~(InAuthorized(p) /\ req[p].username = u))
      => ~MapHas(sessions, u)

(***************************************************************************)
(* SpecLogin: one client sends its logins one after the other, with right  *)
(* and wrong credentials, to a service built with one of several           *)
(* configurations.                                                         *)
(***************************************************************************)
Configs == {TestConfig,
            [Base |-> 1, Factor |-> 2, Limit |-> 4, Retry |-> 1],
            [Base |-> 1, Factor |-> 1, Limit |-> 1, Retry |-> 0]}

PenaltyLogins == LoginRequests({HomeIP}, Usernames, Passphrases, {<<>>})

InitLogin == (\E c \in Configs : NewService(c)) /\ Idle

NextLogin ==
  \/ Tick(PenaltySteps, MaxPenaltyTime)
  \/ LoginPost(LoginClient, PenaltyLogins)
  \/ AuthenticateLock(LoginClient)
  \/ AuthenticateVerify(LoginClient)
  \/ AuthenticateSession(LoginClient)
  \/ LoginAuthenticated(LoginClient)
  \/ LoginPenalisePut(LoginClient)
  \/ Respond(LoginClient)

SpecLogin == InitLogin /\ [][NextLogin]_vars

(***************************************************************************)
(* Properties of the penalties, checked under SpecLogin                    *)
(***************************************************************************)
\* the instants from the last Penalise of the address on
After(ip) == since[ip]..(MaxPenaltyTime + 1)

\* Penalised(ip) is false from the last Penalise of the address on
Unpenalised(ip) == \A t \in After(ip) : ~Penalised(penalties, ip, t)

\* C9 as claimed: with {base=2, factor=2, limit=8, retry=3} the first 3
\* consecutive failed logins of an address without penalty entry leave
\* Penalised false, and the 4th produces a positive delay.
C9_FourthFailureDelays ==
  config = TestConfig =>
    \A ip \in IPs :
      /\ fails[ip] \in 1..3 => applied[ip] = 0 /\ Unpenalised(ip)
      /\ fails[ip] = 4 => applied[ip] > 0 /\ Penalised(penalties, ip, since[ip])

\* C9: with {base=2, factor=2, limit=8, retry=3} the first 4 consecutive
\* failed logins of an address without penalty entry leave Penalised false,
\* and the 5th produces a positive delay, of base seconds: the address is
\* penalised for that long after it.
C9_FifthFailureDelays ==
  config = TestConfig =>
    \A ip \in IPs :
      /\ fails[ip] \in 1..4 => applied[ip] = 0 /\ Unpenalised(ip)
      /\ fails[ip] = 5 =>
            /\ applied[ip] = config.Base
            /\ \A t \in since[ip]..(since[ip] + applied[ip] - 1) :
                  Penalised(penalties, ip, t)

\* the 5th failure has been answered 401 and the address is penalised
C9_Witness ==
  /\ config = TestConfig
  /\ pc[LoginClient] = "done"
  /\ status[LoginClient] = StatusUnauthorized
  /\ fails[req[LoginClient].ip] = 5
  /\ applied[req[LoginClient].ip] > 0
  /\ Penalised(penalties, req[LoginClient].ip, now)

\* the step in which a login request arrives and passes or fails the
\* Penalised check
LoginArrives(p) == pc[p] = "idle" /\ pc'[p] # "idle" /\ req'[p].kind = "login"

\* C10: with Retry > 0, after up to 1 + Retry consecutive failed logins of
\* an address without penalty entry the address is not penalised: a login
\* arriving then is not answered 429, and one with valid credentials that
\* Authenticate accepts is answered 200.
C10_RetryAllowance ==
  [][config.Retry > 0 =>
       /\ \A ip \in IPs :
            fails'[ip] \in 1..(1 + config.Retry)
              => applied'[ip] = 0 /\ Unpenalised(ip)'
       /\ \A p \in Procs :
            /\ LoginArrives(p) /\ fails[req'[p].ip] <= 1 + config.Retry
                 => status'[p] # StatusTooManyRequests
            /\ pc[p] = "authn_return" /\ pc'[p] # "authn_return"
                 /\ req[p].kind = "login" /\ ret[p].ok /\ ret[p].err = Nil
                 => pc'[p] = "done" /\ status'[p] = StatusOK]_vars

\* right after 1 + Retry failures a valid login has passed the Penalised
\* check and has been authenticated
C10_Witness ==
  /\ config.Retry > 0
  /\ pc[LoginClient] = "authn_return"
  /\ req[LoginClient].passphrase = KnownPassphrase
  /\ ret[LoginClient].ok /\ ret[LoginClient].err = Nil
  /\ fails[req[LoginClient].ip] = 1 + config.Retry
  /\ now = since[req[LoginClient].ip]
  /\ status[LoginClient] = StatusOK

(***************************************************************************)
(* SpecPenalty: two goroutines handle logins of one address concurrently,  *)
(* with right and wrong passphrases.                                       *)
(***************************************************************************)
RaceLogins == LoginRequests({HomeIP}, {KnownUser}, Passphrases, {<<>>})

\* the configurations that charge a delay within the first three failures
RaceConfigs == Configs \ {TestConfig}

InitPenalty == (\E c \in RaceConfigs : NewService(c)) /\ Idle

NextPenalty ==
  \/ Tick(TickSteps, MaxTime)
  \/ \E p \in Procs : LoginPost(p, RaceLogins)
  \/ \E p \in Procs : AuthenticateLock(p)
  \/ \E p \in Procs : AuthenticateVerify(p)
  \/ \E p \in Procs : AuthenticateSession(p)
  \/ \E p \in Procs : LoginAuthenticated(p)
  \/ \E p \in Procs : LoginPenalisePut(p)
  \/ \E p \in Procs : Respond(p)

SpecPenalty == InitPenalty /\ [][NextPenalty]_vars

(***************************************************************************)
(* Properties of the penalties under concurrent logins                     *)
(***************************************************************************)
\* the step in which the login of p that authenticated runs NoPenalty
LoginSucceeds(p) ==
  /\ pc[p] = "authn_return" /\ pc'[p] = "done"
  /\ req[p].kind = "login" /\ ret[p].ok /\ ret[p].err = Nil

\* the step in which the Penalise of the failed login of p Puts its entry
PenalisePuts(p) == pc[p] = "penalise_put" /\ pc'[p] = "done"

\* C11: a successful login clears the penalty of its address: when it
\* completes Penalised is false and the failure count is reset, so that the
\* next failure recorded for the address starts a new entry (count 0, the
\* delay of a first failure) and the full allowance is available again.
C11_SuccessClearsPenalty ==
  [][\A p \in Procs :
        /\ LoginSucceeds(p) =>
              /\ ~MapHas(penalties', req[p].ip)
              /\ \A t \in 0..(MaxTime + 1) : ~Penalised(penalties', req[p].ip, t)
              /\ fails'[req[p].ip] = 0
        /\ PenalisePuts(p) /\ ~MapHas(penalties, req[p].ip) =>
              penalties'[req[p].ip] = NewPenalty(config, pen[p].at)]_vars

\* the step in which the verify callback of the Authenticate call of p runs
VerifyRuns(p) == pc[p] = "authn_verify" /\ pc'[p] # "authn_verify"

\* C12: while an address is penalised every login attempt from it (a request
\* whose body decodes) is answered 429, and no verify callback runs for a
\* login of an address at a moment when Penalised(address) is true, also
\* when logins of the address are handled concurrently.
C12_PenalisedNeverVerified ==
  [][\A p \in Procs :
        /\ LoginArrives(p) /\ Penalised(penalties, req'[p].ip, now)
              /\ status'[p] # StatusBadRequest
             => status'[p] = StatusTooManyRequests /\ pc'[p] = "done"
        /\ VerifyRuns(p) /\ req[p].kind = "login"
             => ~Penalised(penalties, req[p].ip, now)]_vars

\* C13: Penalised(address) is true iff an entry exists for the address and
\* its deadline is strictly after the current time (a login whose body
\* decodes is answered 429 exactly then); an entry created or refreshed with
\* delay 0 never makes Penalised true.
C13_PenalisedIffDeadlineAhead ==
  [][/\ \A p \in Procs :
          LoginArrives(p) /\ status'[p] # StatusBadRequest =>
            ((status'[p] = StatusTooManyRequests)
               <=> (req'[p].ip \in DOMAIN penalties
                      /\ penalties[req'[p].ip].Deadline > now))
     /\ \A ip \in IPs :
          ip \in DOMAIN penalties' /\ applied'[ip] = 0 => Unpenalised(ip)']_vars

\* a login has been admitted at the very instant the deadline of a positive
\* delay is reached
C13_Witness ==
  /\ pc[LoginClient] = "authn_lock"
  /\ req[LoginClient].ip \in DOMAIN penalties
  /\ applied[req[LoginClient].ip] > 0
  /\ penalties[req[LoginClient].ip].Deadline = now

\* C14: when the verify callback does not report (true, nil), Authenticate
\* creates no session and leaves the session store unchanged (a session of
\* the username stays as it is), and returns the outcome of the callback
\* unchanged: the error, or (false, nil) for bad credentials.
C14_RefusalKeepsSessions ==
  [][\A p \in Procs :
        VerifyRuns(p) /\ ~(ret'[p].ok /\ ret'[p].err = Nil) =>
          /\ pc'[p] = "authn_return"
          /\ mutex' = NoProc
          /\ sessions' = sessions
          /\ z'[p] = ZeroSession
          /\ rnd' = rnd
          /\ \/ ret'[p] = [ok |-> FALSE, err |-> ErrDatabase]
             \/ /\ ret'[p] = [ok |-> FALSE, err |-> Nil]
                /\ \/ req[p].username \notin DOMAIN Credentials
                   \/ req[p].passphrase # KnownPassphrase]_vars

\* a login with a wrong passphrase has been refused while the session of an
\* earlier login of the username is stored
C14_Witness ==
  /\ pc[LoginClient] = "authn_return"
  /\ ret[LoginClient] = [ok |-> FALSE, err |-> Nil]
  /\ req[LoginClient].username = KnownUser
  /\ KnownUser \in DOMAIN sessions
  /\ sessions[KnownUser] = latest[KnownUser]
  /\ latest[KnownUser] # ZeroSession

\* the step in which the login controller of p acts on what Authenticate
\* returned
LoginReturns(p) ==
  pc[p] = "authn_return" /\ pc'[p] # "authn_return" /\ req[p].kind = "login"

\* C15: the login controller applies a penalty to the address iff the
\* credentials were confirmed bad (false and no error, unknown username
\* included): an error is answered 500 and leaves the penalty entry as it
\* is, a success removes the entry, and nothing else changes the entries.
C15_PenaltyOnlyForBadCredentials ==
  [][/\ \A p \in Procs :
          LoginReturns(p) =>
            /\ ret[p].err # Nil =>
                  /\ status'[p] = StatusInternalServerError /\ pc'[p] = "done"
                  /\ penalties' = penalties
            /\ ret[p].err = Nil /\ ret[p].ok =>
                  /\ status'[p] = StatusOK /\ pc'[p] = "done"
                  /\ req[p].ip \notin DOMAIN penalties'
            /\ ret[p].err = Nil /\ ~ret[p].ok =>
                  pc'[p] = "penalise_put" /\ penalties' = penalties
     /\ \A p \in Procs :
          PenalisePuts(p) =>
            /\ ret[p] = [ok |-> FALSE, err |-> Nil]
            /\ status'[p] = StatusUnauthorized
            /\ req[p].ip \in DOMAIN penalties'
            /\ penalties'[req[p].ip]
                 = Penalise(PenaltyGet(penalties, req[p].ip), config, pen[p].at)
     /\ penalties' # penalties =>
          \E p \in Procs : PenalisePuts(p) \/ LoginSucceeds(p)]_vars

\* a login of an unknown username has been answered 401 and is the second
\* failure recorded for its address
C15_Witness ==
  /\ pc[LoginClient] = "done"
  /\ req[LoginClient].username \notin DOMAIN Credentials
  /\ status[LoginClient] = StatusUnauthorized
  /\ req[LoginClient].ip \in DOMAIN penalties
  /\ fails[req[LoginClient].ip] >= 2

(***************************************************************************)
(* SpecPeriod: one client logs in with its passphrase and a period string  *)
(* taken from PeriodInputs.                                                *)
(***************************************************************************)
PeriodInputs ==
  {<<>>,
   <<"x">>,
   <<"1", "x">>,
   <<"0">>,
   <<"-", "5">>,
   <<"1">>,
   <<"2">>,
   <<"5", "9">>,
   <<"3", "6", "0", "0">>,
   <<"3", "6", "0", "1">>,
   <<"+", "7">>,
   <<"0", "0", "7">>,
   <<"9", "2", "2", "3", "3", "7", "2", "0", "3", "6">>,
   <<"9", "2", "2", "3", "3", "7", "2", "0", "3", "7">>,
   <<"1", "8", "4", "4", "6", "7", "4", "4", "0", "7", "4">>,
   <<"-", "9", "2", "2", "3", "3", "7", "2", "0", "3", "7">>,
   <<"9", "2", "2", "3", "3", "7", "2", "0", "3", "6", "8", "5", "4", "7", "7", "5", "8", "0", "8">>}

PeriodLogins == LoginRequests({HomeIP}, {KnownUser}, {KnownPassphrase}, PeriodInputs)

NextPeriod ==
  \/ Tick(TickSteps, MaxTime)
  \/ LoginPost(LoginClient, PeriodLogins)
  \/ AuthenticateLock(LoginClient)
  \/ AuthenticateVerify(LoginClient)
  \/ AuthenticateSession(LoginClient)
  \/ LoginAuthenticated(LoginClient)
  \/ Respond(LoginClient)

SpecPeriod == Init /\ [][NextPeriod]_vars

\* the period the claim prescribes for the period string: the integer it
\* denotes, in seconds, brought into [1 second, 1 hour]; 1 hour when the
\* string denotes no integer
C16_ClaimedPeriod(period) ==
  LET signed == period # <<>> /\ Head(period) \in {"+", "-"}
      body   == IF signed THEN Tail(period) ELSE period
      mag    == Strip([i \in 1..Len(body) |-> DigitValue(body[i])])
  IN  IF body = <<>> \/ \E i \in 1..Len(body) : ~IsDigit(body[i])
        THEN MaxSessionPeriod
      ELSE IF (signed /\ Head(period) = "-") \/ Less(mag, Magnitude(MinSessionPeriod))
        THEN MinSessionPeriod
      ELSE IF Less(Magnitude(MaxSessionPeriod), mag) THEN MaxSessionPeriod
      ELSE Value(mag, 0)

\* C16: on a successful Authenticate with period string P the period of the
\* session returned and stored is clamp(n seconds, 1 second, 1 hour) when P
\* is an integer n, whatever n, and 1 hour otherwise, hence within
\* [1 second, 1 hour].
C16_PeriodClamp ==
  \A p \in Procs :
    pc[p] = "authn_return" /\ ret[p].ok /\ ret[p].err = Nil =>
      /\ z[p].Period = C16_ClaimedPeriod(req[p].period)
      /\ req[p].username \in DOMAIN sessions
      /\ sessions[req[p].username].Period = z[p].Period
      /\ z[p].Period >= MinSessionPeriod /\ z[p].Period <= MaxSessionPeriod

(***************************************************************************)
(* SpecConfig: main hands a configuration read from the file to            *)
(* auth.NewService; it stops on an error and serves logins otherwise.      *)
(***************************************************************************)
ConfigValues == -1..2
CandidateConfigs ==
  [Base : ConfigValues, Factor : ConfigValues, Limit : ConfigValues,
   Retry : ConfigValues]

\* Service{}
ZeroConfig == [Base |-> 0, Factor |-> 0, Limit |-> 0, Retry |-> 0]

InitConfig ==
  /\ boot = "config"
  /\ config \in CandidateConfigs
  /\ penalties = NewSyncMap
  /\ sessions = NewSyncMap
  /\ mutex = NoProc
  /\ Idle

\* as, err := auth.NewService(cfg.Auth); log.Fatal(err) on an error
MainNewService ==
  /\ boot = "config"
  /\ IF ValidConfig(config)
       THEN /\ boot' = "serving"
            /\ config' = config
            /\ penalties' = NewSyncMap
            /\ sessions' = NewSyncMap
            /\ mutex' = NoProc
       ELSE /\ boot' = "fatal"
            /\ config' = ZeroConfig
            /\ UNCHANGED <<penalties, sessions, mutex>>
  /\ UNCHANGED <<now, rnd, call, timedout, pc, req, z, ret, pen, status, history, extra>>

NextConfig ==
  \/ MainNewService
  \/ /\ boot = "serving"
     /\ \/ Tick(TickSteps, MaxTime)
        \/ LoginPost(LoginClient, PenaltyLogins)
        \/ AuthenticateLock(LoginClient)
        \/ AuthenticateVerify(LoginClient)
        \/ AuthenticateSession(LoginClient)
        \/ LoginAuthenticated(LoginClient)
        \/ LoginPenalisePut(LoginClient)
        \/ Respond(LoginClient)

SpecConfig == InitConfig /\ [][NextConfig]_vars

C18_PenaltyMonotone ==
  [][\A ip \in IPs :
       ip \in DOMAIN penalties /\ ip \in DOMAIN penalties' =>
         /\ penalties'[ip].Count >= penalties[ip].Count
         /\ penalties'[ip].Deadline >= penalties[ip].Deadline]_vars

(***************************************************************************)
(* SpecStress: every goroutine calls Authenticate directly, each for a     *)
(* username of its own, with a callback that answers (true, nil) at once.  *)
(* The scheduler runs every runnable goroutine, and sync.Mutex hands the   *)
(* lock to a goroutine that keeps waiting for it.                          *)
(***************************************************************************)
StressUser == [p \in Procs |-> IF p = LoginClient THEN KnownUser ELSE "nobody"]

StressCalls(p) ==
  {[kind |-> "authenticate", ip |-> ip, username |-> StressUser[p],
    secret |-> <<>>, passphrase |-> "", period |-> t] :
     ip \in IPs, t \in Periods}

\* the calls that have not drawn their secret yet
Calling ==
  {q \in Procs : /\ req[q].kind = "authenticate"
                 /\ pc[q] \in {"authn_lock", "authn_verify", "authn_session"}}

StressCall(p) ==
  /\ pc[p] = "idle"
  /\ rnd + Cardinality(Calling) < MaxDraws
  /\ \E r \in StressCalls(p) : req' = [req EXCEPT ![p] = r]
  /\ pc' = [pc EXCEPT ![p] = "authn_lock"]
  /\ UNCHANGED <<now, rnd, call, timedout, service, z, ret, pen, status, history, extra>>

\* the caller takes (z, ok, err) and goes on to its next call
StressReturn(p) ==
  /\ pc[p] = "authn_return"
  /\ req[p].kind = "authenticate"
  /\ pc' = [pc EXCEPT ![p] = "idle"]
  /\ req' = [req EXCEPT ![p] = NoRequest]
  /\ z' = [z EXCEPT ![p] = ZeroSession]
  /\ ret' = [ret EXCEPT ![p] = NoReturn]
  /\ UNCHANGED <<now, rnd, call, timedout, service, pen, status, history, extra>>

NextStress ==
  \/ Tick(TickSteps, MaxTime)
  \/ \E p \in Procs :
       \/ StressCall(p)
       \/ AuthenticateLock(p)
       \/ AuthenticateVerify(p)
       \/ AuthenticateSession(p)
       \/ StressReturn(p)

SpecStress ==
  /\ Init
  /\ [][NextStress]_vars
  /\ \A p \in Procs :
       /\ SF_vars(AuthenticateLock(p))
       /\ WF_vars(AuthenticateVerify(p))
       /\ WF_vars(AuthenticateSession(p))

\* the direct call of p has returned a session
Returned(p) ==
  /\ pc[p] = "authn_return"
  /\ req[p].kind = "authenticate"
  /\ ret[p].ok /\ ret[p].err = Nil

\* C19: concurrent Authenticate calls for different usernames whose callback
\* answers true without blocking all return; the sessions they return carry
\* secrets distinct from each other, and once they have returned the session
\* stored for each username is exactly the one its caller received.
C19_ConcurrentAuthenticate ==
  /\ [](\A p \in Procs :
          Returned(p) =>
            /\ MapHas(sessions, req[p].username)
            /\ sessions[req[p].username] = z[p]
            /\ \A q \in Procs \ {p} : Returned(q) => z[q].Secret # z[p].Secret)
  /\ \A p \in Procs :
       (pc[p] = "authn_lock" /\ req[p].kind = "authenticate") ~> (pc[p] = "authn_return")

\* both goroutines hold the session of a call that overlapped the other's
C19_Witness ==
  /\ \A p \in Procs : Returned(p)
  /\ rnd = 2
  /\ \A p \in Procs : stamp[StressUser[p]] = now

(***************************************************************************)
(* The response the handler writes for a request that returned an error    *)
(***************************************************************************)
\* err.Error(): the text of the error; "No session for username" is
\* formatted with the username of the frame
ErrorText(e, r) == IF e = ErrNoSession THEN <<e, r.username>> ELSE <<e>>

ErrDeadline == "context deadline exceeded"

\* the error of user.RequestIP for a remote address that is not host:port
ErrRemoteAddr == "Host %q is not of form 'host:port' or similar"

\* err.Error() of the error the controller method returned, <<>> for nil
MethodError(p) ==
  IF req[p].kind = "unparsed" THEN <<ErrRemoteAddr>>
  ELSE IF status[p] = StatusBadRequest THEN <<"ExpectJSON error">>
  ELSE IF status[p] = StatusTooManyRequests THEN <<"Try again later">>
  ELSE IF ret[p].err # Nil THEN ErrorText(ret[p].err, req[p])
  ELSE IF status[p] = StatusUnauthorized THEN <<"Bad credentials">>
  ELSE IF status[p] = StatusInternalServerError THEN <<ErrDatabase>>
  ELSE <<>>

\* doCancellable: x.Err() once x.Done() is closed, the error of the method
\* otherwise
HandlerError(p) == IF timedout[p] THEN <<ErrDeadline>> ELSE MethodError(p)

\* the handler panics and writes nothing
Panic == [status |-> 0, body |-> <<"panic: Cannot return 200 if returning error">>]

\* "Process result": http.Error(w, err.Error(), result.Status) for an error,
\* after the panic check; result.Status and result.Buffer otherwise
Response(p) ==
  IF HandlerError(p) = <<>> THEN [status |-> status[p], body |-> <<"result.Buffer">>]
  ELSE IF status[p] = StatusOK THEN Panic
  ELSE [status |-> status[p], body |-> HandlerError(p)]

\* the request of p is a frame that Authorized refused
Unauthorized(p) ==
  /\ pc[p] = "done"
  /\ req[p].kind \in {"logout", "blog"}
  /\ ret[p].err \in {ErrNoSession, ErrSecretMismatch, ErrIPMismatch, ErrExpired}

\* C20: the client cannot tell which of the four checks of Authorized (no
\* session, secret mismatch, address mismatch, expired) refused its frame:
\* the responses to two refused frames of an authenticated endpoint have the
\* same status and the same body.
C20_FailuresIndistinguishable ==
  \A p, q \in Procs :
    Unauthorized(p) /\ Unauthorized(q) => Response(p) = Response(q)

(***************************************************************************)
(* Properties of the logout controller, checked under Spec                 *)
(***************************************************************************)
\* the logout controller acts on the answer of Authorized
LogoutDecides(p) ==
  pc[p] = "authz_return" /\ req[p].kind = "logout" /\ pc'[p] = "done"

\* C21: a logout whose Authorized check fails is answered 401 and changes
\* nothing in the session store, neither in the check nor afterwards; a
\* logout whose Authorized check succeeds removes the session stored for its
\* username, leaves the other usernames alone and is answered 204.
C21_LogoutRemovesSession ==
  [][\A p \in Procs :
        /\ AuthorizedDecides(p) /\ req[p].kind = "logout" /\ ret'[p].err # Nil
             => sessions' = sessions
        /\ LogoutDecides(p) /\ ret[p].err # Nil
             => status'[p] = StatusUnauthorized /\ sessions' = sessions
        /\ LogoutDecides(p) /\ ret[p].err = Nil
             => /\ status'[p] = StatusNoContent
                /\ ~MapHas(sessions', req[p].username)
                /\ \A u \in DOMAIN sessions \ {req[p].username} :
                     MapHas(sessions', u) /\ sessions'[u] = sessions[u]]_vars

\* one logout has been answered 204 and its session is gone, another logout
\* of the same username has been answered 401
C21_Witness ==
  \E p, q \in Procs :
    /\ pc[p] = "done" /\ req[p].kind = "logout" /\ status[p] = StatusNoContent
    /\ ~MapHas(sessions, req[p].username)
    /\ pc[q] = "done" /\ req[q].kind = "logout" /\ status[q] = StatusUnauthorized
    /\ req[q].username = req[p].username

(***************************************************************************)
(* SpecSecret: a secret is derived from a digest and a salt with ToSecret, *)
(* then a digest and a salt are compared with it.                          *)
(***************************************************************************)
Digests == Passphrases \cup {""}
Salts == {KnownSalt, "a3f1c09e", "00000000"}

InitSecret ==
  /\ NewService(TestConfig)
  /\ now = 0 /\ rnd = 0
  /\ pc = [p \in Procs |-> "idle"]
  /\ req = [p \in Procs |-> NoRequest]
  /\ z = [p \in Procs |-> ZeroSession]
  /\ ret = [p \in Procs |-> NoReturn]
  /\ pen = [p \in Procs |-> NoPenalise]
  /\ status = [p \in Procs |-> DefaultResult]
  /\ executed = [p \in Procs |-> FALSE]
  /\ latest = [u \in Usernames |-> ZeroSession]
  /\ stamp = [u \in Usernames |-> ZeroTime]
  /\ deauthed = [u \in Usernames |-> FALSE]
  /\ fails = [ip \in IPs |-> 0]
  /\ applied = [ip \in IPs |-> 0]
  /\ since = [ip \in IPs |-> ZeroTime]
  /\ timedout = [p \in Procs |-> FALSE]
  /\ arg \in [digest : Digests, salt : Salts, try : Digests, trySalt : Salts]
  /\ out = [NoOutput EXCEPT !.step = "start"]

serving == <<now, rnd, timedout, service, pc, req, z, ret, pen, status, history, extra>>

\* secret := ToSecret(digest, salt)
ToSecretCall ==
  /\ out.step = "start"
  /\ out' = [out EXCEPT !.step = "derived", !.secret = ToSecret(arg.digest, arg.salt)]
  /\ UNCHANGED <<arg, serving>>

\* ok := Compare(try, trySalt, secret)
CompareCall ==
  /\ out.step = "derived"
  /\ out' = [out EXCEPT !.step = "compared",
                         !.ok = Compare(arg.try, arg.trySalt, out.secret)]
  /\ UNCHANGED <<arg, serving>>

NextSecret == ToSecretCall \/ CompareCall

SpecSecret == InitSecret /\ [][NextSecret]_vars

\* C22: with the salt the secret was derived with, Compare answers true for
\* the password the secret was derived from and false for every other
\* password.
C22_CompareRoundTrip ==
  out.step = "compared" /\ arg.trySalt = arg.salt =>
    out.ok = (arg.try = arg.digest)

\* a password other than the one the secret was derived from has been
\* compared, with the same salt, and refused
C22_Witness ==
  /\ out.step = "compared"
  /\ arg.trySalt = arg.salt
  /\ arg.try # arg.digest
  /\ ~out.ok

\* C23: the salt is mixed into the derivation: the secrets derived from one
\* password with two different salts differ, and Compare with the password
\* and a salt other than the one the secret was derived with answers false.
C23_SaltMixedIn ==
  out.step = "compared" /\ arg.try = arg.digest /\ arg.trySalt # arg.salt =>
    /\ out.secret # ToSecret(arg.digest, arg.trySalt)
    /\ ~out.ok

(***************************************************************************)
(* Properties of the refresh rule, checked under SpecLogin                 *)
(***************************************************************************)
\* C24: a Penalise that finds an entry with count n stores the deadline
\* now + d, with d = 0 when n < retry and d = base * factor^(n - retry)
\* otherwise, and the count n + 1 when d < limit, n when d >= limit; a
\* Penalise that finds no entry stores the count 0.
C24_RefreshRule ==
  [][\A p \in Procs :
        PenalisePuts(p) =>
          LET ip == req[p].ip
              n  == penalties[ip].Count
              d  == IF n < config.Retry THEN 0
                    ELSE config.Base * Pow(config.Factor, n - config.Retry)
          IN  IF MapHas(penalties, ip)
                THEN /\ penalties'[ip].Deadline = pen[p].at + d
                     /\ penalties'[ip].Count = (IF d < config.Limit THEN n + 1 ELSE n)
                ELSE penalties'[ip].Count = 0]_vars

\* a failure has found an entry whose delay reaches the limit: the delay has
\* been applied and the count has stayed
C24_Witness ==
  \E ip \in IPs :
    /\ MapHas(penalties, ip)
    /\ fails[ip] >= 2
    /\ config.Retry > 0
    /\ applied[ip] >= config.Limit
    /\ penalties[ip].Deadline = since[ip] + applied[ip]
    /\ penalties[ip].Count = fails[ip] - 2

(***************************************************************************)
(* SpecEscalate: the logins of SpecLogin, sent to a service whose          *)
(* configuration lets the delay reach the limit within a few failures, or  *)
(* has factor 1, or has retry 0.                                           *)
(***************************************************************************)
EscalateConfigs ==
  {[Base |-> 1, Factor |-> 2, Limit |-> 2, Retry |-> 1],
   [Base |-> 1, Factor |-> 2, Limit |-> 4, Retry |-> 1],
   [Base |-> 1, Factor |-> 1, Limit |-> 2, Retry |-> 1],
   [Base |-> 1, Factor |-> 2, Limit |-> 4, Retry |-> 0]}

InitEscalate == (\E c \in EscalateConfigs : NewService(c)) /\ Idle

SpecEscalate == InitEscalate /\ [][NextLogin]_vars

\* what C25 says of the failure whose Penalise Puts its entry: applied is
\* the delay of the failure before it
Escalates(p) ==
  LET ip == req[p].ip
  IN  PenalisePuts(p) /\ MapHas(penalties, ip) =>
        /\ applied[ip] > 0 /\ applied[ip] < config.Limit
             => applied'[ip] > applied[ip]
        /\ applied[ip] >= config.Limit
             => /\ applied'[ip] = applied[ip]
                /\ penalties'[ip].Count = penalties[ip].Count
        /\ penalties'[ip].Deadline = pen[p].at + applied'[ip]

C26_FirstFailure ==
  [][\A p \in Procs :
        LET ip == req[p].ip
        IN  /\ PenalisePuts(p) /\ ~MapHas(penalties, ip) =>
                 /\ penalties'[ip].Count = 0
                 /\ penalties'[ip].Deadline
                      = pen[p].at + (IF config.Retry = 0 THEN config.Base ELSE 0)
                 /\ Penalised(penalties', ip, pen[p].at) = (config.Retry = 0)
                 /\ config.Retry > 0 => Unpenalised(ip)'
            /\ LoginArrives(p) /\ config.Retry = 0 /\ fails[req'[p].ip] = 1
                 /\ now = since[req'[p].ip] /\ status'[p] # StatusBadRequest
                 => status'[p] = StatusTooManyRequests]_vars

\* with retry = 0, the login that follows the first failure of the address
\* at once has been answered 429
C26_Witness ==
  /\ config.Retry = 0
  /\ pc[LoginClient] = "done"
  /\ status[LoginClient] = StatusTooManyRequests
  /\ fails[req[LoginClient].ip] = 1
  /\ now = since[req[LoginClient].ip]
  /\ penalties[req[LoginClient].ip] = [Deadline |-> now + config.Base, Count |-> 0]

\* C27: a penalty entry leaves the map only in the NoPenalty of a
\* successful login of its address; the passing of time changes no entry,
\* and a failure that arrives once the deadline has passed is charged the
\* delay of the stored count and does not lower that count: as long as no
\* delay has reached the limit, the count is the number of failures since
\* the entry was created.
C27_EntryStaysUntilNoPenalty ==
  [][/\ \A ip \in IPs :
          /\ MapHas(penalties, ip) /\ ~MapHas(penalties', ip)
               => \E p \in Procs : LoginSucceeds(p) /\ req[p].ip = ip
          /\ fails'[ip] >= 1 /\ applied'[ip] < config.Limit
               => MapHas(penalties', ip) /\ penalties'[ip].Count = fails'[ip] - 1
     /\ now' # now => penalties' = penalties
     /\ \A p \in Procs :
          LET ip == req[p].ip
              n  == penalties[ip].Count
          IN  PenalisePuts(p) /\ MapHas(penalties, ip)
                /\ pen[p].at >= penalties[ip].Deadline
              => /\ penalties'[ip].Count >= n
                 /\ applied'[ip] = (IF n < config.Retry THEN 0
                                     ELSE config.Base * Pow(config.Factor, n - config.Retry))]_vars

\* the deadline of a positive delay has passed, and the failure that came
\* after it is about to store a longer delay and the next count
C27_Witness ==
  LET ip == req[LoginClient].ip
  IN  /\ pc[LoginClient] = "penalise_put"
      /\ MapHas(penalties, ip)
      /\ penalties[ip].Deadline > since[ip]
      /\ now > penalties[ip].Deadline
      /\ pen[LoginClient].penalty.Count = penalties[ip].Count + 1
      /\ pen[LoginClient].delay > applied[ip]

(***************************************************************************)
(* Atomicity of Penalise, checked under SpecPenalty                        *)
(***************************************************************************)
RECURSIVE Sequential(_, _)
\* the entry that k Penalise calls made one after the other leave for an
\* address that had none (its deadline taken at time 0)
Sequential(k, c) ==
  IF k = 1 THEN NewPenalty(c, ZeroTime) ELSE Refresh(Sequential(k - 1, c), c, ZeroTime)

\* C28: Penalise is atomic with respect to the Penalise and NoPenalty calls
\* that run with it on the same address: once k Penalise calls have
\* completed on an address since it last had no entry, the stored count is
\* the one k calls in sequence produce, and a Penalise that read an entry
\* which a NoPenalty has removed since leaves the entry absent.
C28_PenaliseAtomic ==
  [][\A p \in Procs :
        LET ip == req[p].ip
        IN  PenalisePuts(p) =>
              /\ pen[p].ok /\ ~MapHas(penalties, ip) => ~MapHas(penalties', ip)
              /\ MapHas(penalties', ip)
                   => penalties'[ip].Count = Sequential(fails'[ip], config).Count]_vars

(***************************************************************************)
(* Independence of the penalty operations, checked under SpecPenalty       *)
(***************************************************************************)
\* the login of p is about to run NoPenalty or Penalise, or is inside Penalise
PenaltyPending(p) ==
  \/ pc[p] = "authn_return" /\ req[p].kind = "login" /\ ret[p].err = Nil
  \/ pc[p] = "penalise_put"

\* C29: Penalised, Penalise and NoPenalty take neither the mutex of the
\* service nor anything of the session map: they leave both as they are, and
\* each of them can complete while an Authenticate call holds the mutex
\* inside its verify callback.
C29_PenaltiesNeverWait ==
  [][\A p \in Procs :
        /\ LoginArrives(p) \/ LoginReturns(p) \/ PenalisePuts(p)
             => mutex' = mutex /\ sessions' = sessions
        /\ \A q \in Procs \ {p} :
             pc[q] = "authn_verify" /\ mutex = q /\ PenaltyPending(p)
               => ENABLED (LoginAuthenticated(p) \/ LoginPenalisePut(p))]_vars

\* a login has been answered 200, the entry of its address removed, and the
\* other login of the address holds the mutex inside its verify callback
C29_Witness ==
  \E p, q \in Procs :
    /\ pc[q] = "authn_verify" /\ mutex = q
    /\ pc[p] = "done" /\ status[p] = StatusOK /\ req[p].kind = "login"
    /\ ret[p].ok
    /\ stamp[req[p].username] = now
    /\ ~MapHas(penalties, req[p].ip)

(***************************************************************************)
(* SpecTimeout: the logins of one client, with a request deadline that may *)
(* fire at any moment while the controller method runs.                    *)
(***************************************************************************)
\* the method of the request of p is still running
Running(p) == pc[p] \notin {"idle", "done"}

\* context.WithTimeout: the deadline of the request of p fires before the
\* method has sent its result, and the select takes the case of x.Done()
DeadlineFires(p) ==
  /\ Running(p)
  /\ ~timedout[p]
  /\ timedout' = [timedout EXCEPT ![p] = TRUE]
  /\ UNCHANGED <<now, rnd, call, service, pc, req, z, ret, pen, status, history, extra>>

\* user.RequestIP fails on the remote address of the request: the handler
\* calls no method and processes the error with the default result
RequestIPFails(p) ==
  /\ pc[p] = "idle"
  /\ req' = [req EXCEPT ![p] = [NoRequest EXCEPT !.kind = "unparsed"]]
  /\ pc' = [pc EXCEPT ![p] = "done"]
  /\ UNCHANGED <<now, rnd, call, timedout, service, z, ret, pen, status, history, extra>>

NextTimeout ==
  \/ Tick(TickSteps, MaxTime)
  \/ RequestIPFails(LoginClient)
  \/ LoginPost(LoginClient, PenaltyLogins)
  \/ AuthenticateLock(LoginClient)
  \/ AuthenticateVerify(LoginClient)
  \/ AuthenticateSession(LoginClient)
  \/ LoginAuthenticated(LoginClient)
  \/ LoginPenalisePut(LoginClient)
  \/ DeadlineFires(LoginClient)
  \/ Respond(LoginClient)

SpecTimeout == Init /\ [][NextTimeout]_vars

\* the handler of p writes its response
Responds(p) == pc[p] = "done" /\ pc'[p] = "idle"

\* C30: a deadline that fires while the controller method is running does
\* not interrupt it: the method goes on from where it is, with its effects;
\* the handler writes nothing before the method has finished, and the
\* response it writes then reports the deadline error, not the result of the
\* method.
C30_DeadlineReported ==
  [][\A p \in Procs :
        /\ Running(p) /\ timedout'[p] /\ ~timedout[p]
             => pc'[p] = pc[p] /\ sessions' = sessions /\ penalties' = penalties
        /\ Running(p) /\ timedout[p]
             => /\ ENABLED (\/ AuthenticateLock(p) \/ AuthenticateVerify(p)
                            \/ AuthenticateSession(p) \/ LoginAuthenticated(p)
                            \/ LoginPenalisePut(p))
                /\ ~ENABLED Respond(p)
        /\ Responds(p) /\ timedout[p]
             => Response(p) # Panic /\ Response(p).body = <<ErrDeadline>>]_vars

\* the handler of p has reached "Process result" with a non-nil error
EndsWithError(p) == pc[p] = "done" /\ HandlerError(p) # <<>>

\* C31: the handler never reaches its panic "Cannot return 200 if returning
\* error": whenever it ends with a non-nil error (deadline fired, remote
\* address not parsed, error of the method) the result status is not 200.
C31_NeverPanics ==
  \A p \in Procs : EndsWithError(p) => status[p] # StatusOK /\ Response(p) # Panic

\* the two cases the claim names, each taken alone
C31_DeadlineNeverPanics ==
  \A p \in Procs : EndsWithError(p) /\ timedout[p] => status[p] # StatusOK

C31_RemoteAddrNeverPanics ==
  \A p \in Procs : EndsWithError(p) /\ req[p].kind = "unparsed" => status[p] # StatusOK

\* C32: a database statement of a blog or static POST, PUT or DELETE is
\* executed only after Authorized returned success for that same request;
\* a request that Authorized refused is answered 401 and executes nothing.
C32_NoStatementWithoutAuthorization ==
  \A p \in Procs :
    /\ executed[p] => req[p].kind = "blog" /\ ret[p].ok /\ ret[p].err = Nil
    /\ req[p].kind = "blog" /\ pc[p] = "done" /\ ret[p].err # Nil
         => ~executed[p] /\ Response(p).status = StatusUnauthorized

\* one request has executed its statements while another was refused
C32_Witness ==
  \E p, q \in Procs :
    /\ executed[p] /\ pc[p] = "done"
    /\ req[q].kind = "blog" /\ pc[q] = "done" /\ ret[q].err # Nil

\* C33: a failed Authorized call leaves the session map as it was: the
\* stored session is neither renewed, nor replaced, nor removed (an expired
\* session stays stored; a wrong secret or address extends nothing).
C33_FailedAuthorizedKeepsSessions ==
  [][\A p \in Procs :
        AuthorizedDecides(p) /\ ret'[p].err # Nil
          => sessions' = sessions /\ pc'[p] = "authz_return"]_vars

\* a call was refused for an expired session, which is still stored
C33_Witness ==
  \E p \in Procs :
    /\ pc[p] = "authz_return" /\ ret[p].err = ErrExpired
    /\ MapHas(sessions, req[p].username)
    /\ Expired(sessions[req[p].username], now)

\* a call with a wrong address was refused and the real session is stored
C33_WitnessWrongAddress ==
  \E p \in Procs :
    /\ pc[p] = "authz_return" /\ ret[p].err = ErrIPMismatch
    /\ MapHas(sessions, req[p].username)

\* the current time is past the expiration of the session stored for u
ExpiredStored(u) == MapHas(sessions, u) /\ Expired(sessions[u], now)

\* the step in which a successful Authenticate registers a new session for u
AuthenticateRegisters(u) ==
  \E p \in Procs :
    /\ pc[p] = "authn_session" /\ pc'[p] = "authn_return"
    /\ req[p].username = u /\ ret'[p].err = Nil

\* C34: an expired session never becomes valid again: once the current time
\* is past the expiration stored for a username, the stored session stays
\* expired (or is removed) and every Authorized call for the username fails,
\* until a new successful Authenticate for it, under every interleaving.
C34_ExpiredStaysInvalid ==
  [][\A u \in Usernames :
        ExpiredStored(u) /\ ~AuthenticateRegisters(u)
          => /\ MapHas(sessions', u) => Expired(sessions'[u], now')
             /\ \A p \in Procs :
                  AuthorizedDecides(p) /\ req[p].username = u => ret'[p].err # Nil]_vars

\* the part of C34 that holds: a call that makes its checks once the stored
\* session is expired is refused
C34_ExpiredAtCheckRefused ==
  [][\A p \in Procs :
        AuthorizedDecides(p) /\ ExpiredStored(req[p].username) => ret'[p].err # Nil]_vars

\* the step in which the login of p is rejected because its address is
\* penalised
LoginThrottled(p) ==
  pc[p] = "idle" /\ pc'[p] = "done" /\ status'[p] = StatusTooManyRequests

\* C35: a login rejected with 429 because its address is penalised leaves
\* the penalty entry of the address (count and deadline) and the session map
\* unchanged, from its arrival to its response.
C35_ThrottledLoginChangesNothing ==
  [][\A p \in Procs :
        /\ LoginThrottled(p)
             => /\ Penalised(penalties, req'[p].ip, now)
                /\ penalties' = penalties /\ sessions' = sessions
                /\ Response(p)'.status = StatusTooManyRequests
        /\ Responds(p) /\ status[p] = StatusTooManyRequests
             => penalties' = penalties /\ sessions' = sessions]_vars

\* a login has been rejected with 429 while an escalated penalty runs
C35_Witness ==
  \E p \in Procs :
    /\ pc[p] = "done" /\ status[p] = StatusTooManyRequests
    /\ MapHas(penalties, req[p].ip)
    /\ penalties[req[p].ip].Count > config.Retry
    /\ penalties[req[p].ip].Deadline > now

(***************************************************************************)
(* SpecBackoff: Penalise called directly, again and again, for one address *)
(* of a service built from a configuration given in the 64-bit integers of *)
(* the program. Base, Factor and Limit are decimal magnitudes; Base and    *)
(* Factor are powers of ten, so that a product is a power of ten; the      *)
(* calls are made at the zero instant, and a deadline is its offset from   *)
(* that instant in nanoseconds.                                            *)
(***************************************************************************)
Int64(m) == [neg |-> FALSE, mag |-> m]
MinInt64 == [neg |-> TRUE, mag |-> TwoTo63]
MaxInt64 == [neg |-> FALSE, mag |-> Sub(TwoTo63, <<1>>)]

Zeros(k) == [i \in 1..k |-> 0]
TenTo(k) == <<1>> \o Zeros(k)

\* the decimal exponent of a factor
Exponent(f) == Len(f) - 1

Odd(m) == m # <<>> /\ m[Len(m)] % 2 = 1

\* int(math.Pow(float64(factor), float64(e))) for e >= 0: the power when an
\* int holds it; otherwise the conversion is implementation-dependent, the
\* smallest int on amd64 and the largest on arm64
MathPow(factor, e) ==
  LET power == TenTo(Exponent(factor) * e)
  IN  IF Less(power, TwoTo63) THEN {Int64(power)} ELSE {MinInt64, MaxInt64}

\* 10^k mod 2^64 for k = 0..28
TenToMod64 ==
  <<<<1>>,
    <<1, 0>>,
    <<1, 0, 0>>,
    <<1, 0, 0, 0>>,
    <<1, 0, 0, 0, 0>>,
    <<1, 0, 0, 0, 0, 0>>,
    <<1, 0, 0, 0, 0, 0, 0>>,
    <<1, 0, 0, 0, 0, 0, 0, 0>>,
    <<1, 0, 0, 0, 0, 0, 0, 0, 0>>,
    <<1, 0, 0, 0, 0, 0, 0, 0, 0, 0>>,
    <<1, 0, 0, 0, 0, 0, 0, 0, 0, 0, 0>>,
    <<1, 0, 0, 0, 0, 0, 0, 0, 0, 0, 0, 0>>,
    <<1, 0, 0, 0, 0, 0, 0, 0, 0, 0, 0, 0, 0>>,
    <<1, 0, 0, 0, 0, 0, 0, 0, 0, 0, 0, 0, 0, 0>>,
    <<1, 0, 0, 0, 0, 0, 0, 0, 0, 0, 0, 0, 0, 0, 0>>,
    <<1, 0, 0, 0, 0, 0, 0, 0, 0, 0, 0, 0, 0, 0, 0, 0>>,
    <<1, 0, 0, 0, 0, 0, 0, 0, 0, 0, 0, 0, 0, 0, 0, 0, 0>>,
    <<1, 0, 0, 0, 0, 0, 0, 0, 0, 0, 0, 0, 0, 0, 0, 0, 0, 0>>,
    <<1, 0, 0, 0, 0, 0, 0, 0, 0, 0, 0, 0, 0, 0, 0, 0, 0, 0, 0>>,
    <<1, 0, 0, 0, 0, 0, 0, 0, 0, 0, 0, 0, 0, 0, 0, 0, 0, 0, 0, 0>>,
    <<7, 7, 6, 6, 2, 7, 9, 6, 3, 1, 4, 5, 2, 2, 4, 1, 9, 2, 0>>,
    <<3, 8, 7, 5, 8, 2, 0, 0, 1, 9, 6, 8, 4, 2, 1, 2, 7, 3, 6>>,
    <<1, 8, 6, 4, 7, 1, 2, 0, 4, 9, 4, 2, 3, 0, 2, 4, 1, 2, 8>>,
    <<2, 0, 0, 3, 7, 6, 4, 2, 0, 5, 2, 0, 6, 8, 9, 6, 6, 4>>,
    <<2, 0, 0, 3, 7, 6, 4, 2, 0, 5, 2, 0, 6, 8, 9, 6, 6, 4, 0>>,
    <<1, 5, 9, 0, 8, 9, 7, 9, 7, 8, 3, 5, 9, 4, 1, 4, 7, 8, 4>>,
    <<1, 5, 9, 0, 8, 9, 7, 9, 7, 8, 3, 5, 9, 4, 1, 4, 7, 8, 4, 0>>,
    <<1, 1, 5, 1, 5, 8, 4, 5, 2, 4, 6, 2, 6, 5, 0, 6, 5, 4, 7, 2>>,
    <<4, 4, 7, 7, 9, 8, 8, 0, 2, 0, 3, 9, 3, 3, 4, 5, 0, 2, 4>>>>

\* base * power, wrapped to 64 bits: base times the smallest or the largest
\* int, or the product of two powers of ten
Times64(base, power) ==
  IF power = MinInt64 THEN (IF Odd(base) THEN MinInt64 ELSE Int64(<<>>))
  ELSE IF power = MaxInt64
    THEN (IF Odd(base) THEN Wrap(FALSE, Sub(TwoTo63, base)) ELSE Wrap(TRUE, base))
  ELSE Wrap(FALSE, TenToMod64[Exponent(base) + Exponent(power.mag) + 1])

\* the values penaltyFunc can return
penaltyFunc64(i, c) == {Times64(c.Base, power) : power \in MathPow(c.Factor, i - c.Retry)}

RefreshDuration64(p, c) ==
  IF p.Count >= c.Retry THEN penaltyFunc64(p.Count, c) ELSE {Int64(<<>>)}

Refresh64(p, c, duration) ==
  LET increment == IF Before(duration, Int64(c.Limit)) THEN 1 ELSE 0
  IN  [Deadline |-> TimesSecond(duration), Count |-> p.Count + increment]

NewPenaltyDuration64(c) == IF c.Retry = 0 THEN penaltyFunc64(0, c) ELSE {Int64(<<>>)}

NewPenalty64(c, duration) == [Deadline |-> TimesSecond(duration), Count |-> 0]

\* the conditions of NewService
ValidConfig64(c) ==
  ~(c.Retry < 0 \/ Less(c.Base, <<1>>)) /\ ~Less(c.Limit, c.Base) /\ ~Less(c.Factor, <<1>>)

MaxRetry == 2

BackoffConfigs ==
  {c \in [Base   : {<<1>>, TenTo(10)},
          Factor : {TenTo(0), TenTo(1), TenTo(5), TenTo(9)},
          Limit  : {<<1>>, TenTo(2), <<2>> \o Zeros(9), TenTo(11)},
          Retry  : 0..MaxRetry] : ValidConfig64(c)}

NoEntry == [step |-> "penalties", ok |-> FALSE,
            penalty |-> [Deadline |-> Int64(<<>>), Count |-> 0],
            before |-> Int64(<<>>), calls |-> 0]

InitBackoff ==
  /\ NewService(TestConfig)
  /\ now = 0 /\ rnd = 0
  /\ pc = [p \in Procs |-> "idle"]
  /\ req = [p \in Procs |-> NoRequest]
  /\ z = [p \in Procs |-> ZeroSession]
  /\ ret = [p \in Procs |-> NoReturn]
  /\ pen = [p \in Procs |-> NoPenalise]
  /\ status = [p \in Procs |-> DefaultResult]
  /\ executed = [p \in Procs |-> FALSE]
  /\ latest = [u \in Usernames |-> ZeroSession]
  /\ stamp = [u \in Usernames |-> ZeroTime]
  /\ deauthed = [u \in Usernames |-> FALSE]
  /\ fails = [ip \in IPs |-> 0]
  /\ applied = [ip \in IPs |-> 0]
  /\ since = [ip \in IPs |-> ZeroTime]
  /\ timedout = [p \in Procs |-> FALSE]
  /\ arg \in BackoffConfigs
  /\ out = NoEntry

\* Penalise(ip): Get, then Refresh or NewPenalty, then Put
PenaliseCall ==
  /\ out.calls < MaxFailures
  /\ \E d \in IF out.ok THEN RefreshDuration64(out.penalty, arg)
                        ELSE NewPenaltyDuration64(arg) :
       out' = [out EXCEPT !.ok = TRUE,
                          !.penalty = IF out.ok THEN Refresh64(out.penalty, arg, d)
                                                ELSE NewPenalty64(arg, d),
                          !.before = out.penalty.Deadline,
                          !.calls = @ + 1]
  /\ UNCHANGED <<arg, serving>>

\* NoPenalty(ip): Delete
NoPenaltyCall ==
  /\ out.ok
  /\ out' = NoEntry
  /\ UNCHANGED <<arg, serving>>

NextBackoff == PenaliseCall \/ NoPenaltyCall

SpecBackoff == InitBackoff /\ [][NextBackoff]_vars

\* C36: the delays applied by the Penalise calls made one after the other
\* on one address, with no NoPenalty in between, never decrease, in every
\* valid configuration (retry = 0 and factor = 1 included).
C36_DelaysNonDecreasing ==
  out.ok /\ out.calls >= 2 => ~Before(out.penalty.Deadline, out.before)

\* base * factor^j, without bound
Product(c, j) == c.Base \o Zeros(Exponent(c.Factor) * j)

\* the first index n at which base * factor^(n - retry) >= limit: below retry
\* the product is below base, hence below limit
FirstIndex64(c) ==
  c.Retry + (CHOOSE j \in 0..Len(c.Limit) :
               /\ ~Less(Product(c, j), c.Limit)
               /\ \A i \in 0..(j - 1) : Less(Product(c, i), c.Limit))

\* C37: with factor >= 2 every delay applied by Penalise is smaller than
\* limit * factor seconds, and the stored count never exceeds the first
\* index n at which base * factor^(n - retry) >= limit.
C37_BackoffBounded ==
  out.ok /\ Exponent(arg.Factor) >= 1 =>
    /\ Before(out.penalty.Deadline,
              Int64(arg.Limit \o Zeros(Exponent(arg.Factor)) \o Second))
    /\ out.penalty.Count <= FirstIndex64(arg)

\* the two halves of C37, each taken alone
C37_DelayBelowLimitTimesFactor ==
  out.ok /\ Exponent(arg.Factor) >= 1 =>
    Before(out.penalty.Deadline,
           Int64(arg.Limit \o Zeros(Exponent(arg.Factor)) \o Second))

C37_CountBelowFirstIndex ==
  out.ok /\ Exponent(arg.Factor) >= 1 => out.penalty.Count <= FirstIndex64(arg)

(***************************************************************************)
(* The same two properties on the configurations of SpecEscalate, whose    *)
(* delays stay far from the range of a time.Duration                       *)
(***************************************************************************)
\* the delays of the Penalise calls made one after the other on one address
\* never decrease
SmallDelaysNeverDecrease ==
  [][\A p \in Procs :
        LET ip == req[p].ip
        IN  PenalisePuts(p) /\ fails[ip] >= 1
              => /\ applied'[ip] = penalties'[ip].Deadline - since'[ip]
                 /\ applied'[ip] >= applied[ip]]_vars

\* with retry = 0 the third failure in a row has applied more than the base
SmallDelaysRetryZero ==
  \E ip \in IPs :
    /\ config.Retry = 0
    /\ MapHas(penalties, ip)
    /\ fails[ip] >= 3
    /\ applied[ip] > config.Base

\* with factor = 1 three failures in a row have applied the same delay
SmallDelaysFactorOne ==
  \E ip \in IPs :
    /\ config.Factor = 1
    /\ MapHas(penalties, ip)
    /\ fails[ip] >= 4
    /\ applied[ip] = config.Base

\* the first index n at which base * factor^(n - retry) >= limit: below retry
\* the product is below base, hence below limit
FirstIndex(c) ==
  CHOOSE n \in c.Retry..(c.Retry + c.Limit) :
    /\ penaltyFunc(n, c.Base, c.Factor, c.Retry) >= c.Limit
    /\ \A k \in c.Retry..(n - 1) : penaltyFunc(k, c.Base, c.Factor, c.Retry) < c.Limit

\* with factor >= 2 every delay is below limit * factor and the count stays
\* at or below the first index
SmallBackoffBound ==
  config.Factor >= 2 =>
    /\ \A ip \in IPs :
         /\ applied[ip] < config.Limit * config.Factor
         /\ MapHas(penalties, ip) => penalties[ip].Count <= FirstIndex(config)
    /\ \A p \in Procs :
         pc[p] = "penalise_put"
           => /\ pen[p].delay < config.Limit * config.Factor
              /\ pen[p].penalty.Count <= FirstIndex(config)

\* the count has reached the first index and the delay of that index, which
\* is not below the limit, has been applied twice
SmallBackoffSaturated ==
  \E ip \in IPs :
    /\ config.Factor >= 2
    /\ MapHas(penalties, ip)
    /\ penalties[ip].Count = FirstIndex(config)
    /\ applied[ip] = penaltyFunc(FirstIndex(config), config.Base, config.Factor, config.Retry)
    /\ applied[ip] >= config.Limit
    /\ fails[ip] = FirstIndex(config) + 3

(***************************************************************************)
(* SpecTransaction: database Service.Transaction(fs...) called with up to  *)
(* MaxFuncs functions. A sql.Result and an error are sequences, <<>> for   *)
(* nil; the result of the i-th function is <<i>> and the statement it      *)
(* executes is i.                                                          *)
(***************************************************************************)
MaxFuncs == 3

\* what a TFunc does when it is called: it executes its statement and
\* returns its result, or returns (nil, err), or executes its statement and
\* returns its result with an error
TFuncs == {"statement", "error", "result and error"}

Functions == UNION {[1..n -> TFuncs] : n \in 0..MaxFuncs}

NilResult == <<>>
ErrBeginTx == <<"BeginTx">>
ErrCommit == <<"Commit">>
ErrFunc(i) == <<"f", i>>

\* "var r sql.Result = nil", before BeginTx
NoTransaction ==
  [step |-> "BeginTx", i |-> 0, r |-> NilResult, tx |-> "none",
   ran |-> <<>>, received |-> <<>>, pending |-> <<>>, db |-> <<>>,
   result |-> NilResult, err |-> <<>>]

InitTransaction ==
  /\ NewService(TestConfig)
  /\ now = 0 /\ rnd = 0
  /\ pc = [p \in Procs |-> "idle"]
  /\ req = [p \in Procs |-> NoRequest]
  /\ z = [p \in Procs |-> ZeroSession]
  /\ ret = [p \in Procs |-> NoReturn]
  /\ pen = [p \in Procs |-> NoPenalise]
  /\ status = [p \in Procs |-> DefaultResult]
  /\ executed = [p \in Procs |-> FALSE]
  /\ latest = [u \in Usernames |-> ZeroSession]
  /\ stamp = [u \in Usernames |-> ZeroTime]
  /\ deauthed = [u \in Usernames |-> FALSE]
  /\ fails = [ip \in IPs |-> 0]
  /\ applied = [ip \in IPs |-> 0]
  /\ since = [ip \in IPs |-> ZeroTime]
  /\ timedout = [p \in Procs |-> FALSE]
  /\ arg \in Functions
  /\ out = NoTransaction

\* t, err := d.DB.BeginTx(d.Context, nil)
BeginTx ==
  /\ out.step = "BeginTx"
  /\ \/ out' = [out EXCEPT !.step = "range", !.tx = "open"]
     \/ out' = [out EXCEPT !.step = "returned", !.err = ErrBeginTx]
  /\ UNCHANGED <<arg, serving>>

\* mutant: the loop goes on to the next function after an error
Called_GoesOn(o, fs, i) ==
  [o EXCEPT !.i = i,
            !.r = IF fs[i] = "error" THEN NilResult ELSE <<i>>,
            !.ran = Append(@, i),
            !.received = Append(@, o.r),
            !.pending = IF fs[i] = "error" THEN @ ELSE Append(@, i)]

\* one turn of the loop: "r, err = f(r, t)", then "return nil, err" with the
\* deferred Rollback when err is not nil
Called(o, fs, i) ==
  LET called == [o EXCEPT !.i = i,
                          !.r = IF fs[i] = "error" THEN NilResult ELSE <<i>>,
                          !.ran = Append(@, i),
                          !.received = Append(@, o.r),
                          !.pending = IF fs[i] = "error" THEN @ ELSE Append(@, i)]
  IN  IF fs[i] = "statement" THEN called
      ELSE [called EXCEPT !.step = "returned", !.err = ErrFunc(i),
                          !.result = NilResult, !.tx = "rolled back",
                          !.pending = <<>>]

CallFunc ==
  /\ out.step = "range"
  /\ out.i < Len(arg)
  /\ out' = Called(out, arg, out.i + 1)
  /\ UNCHANGED <<arg, serving>>

\* t.Commit() after the last function; the deferred Rollback has no effect
\* on a transaction that Commit has ended
Commit ==
  /\ out.step = "range"
  /\ out.i = Len(arg)
  /\ \/ out' = [out EXCEPT !.step = "returned", !.tx = "committed",
                            !.db = @ \o out.pending, !.pending = <<>>,
                            !.result = out.r]
     \/ out' = [out EXCEPT !.step = "returned", !.tx = "not committed",
                            !.pending = <<>>, !.err = ErrCommit]
  /\ UNCHANGED <<arg, serving>>

NextTransaction == BeginTx \/ CallFunc \/ Commit

SpecTransaction == InitTransaction /\ [][NextTransaction]_vars

\* the functions of the call that return an error
FailingFuncs == {i \in 1..Len(arg) : arg[i] # "statement"}

\* the first of them
FirstFailing == CHOOSE i \in FailingFuncs : \A j \in FailingFuncs : i <= j

\* C38 as claimed: the transaction is committed if and only if every
\* function returned no error.
C38_CommittedIffNoFunctionError ==
  out.step = "returned" =>
    (out.tx = "committed" <=> \A j \in 1..Len(out.ran) : arg[out.ran[j]] = "statement")

\* C38: the functions run in the given order, each receiving the result of
\* the one before it (nil for the first); at the first error no later
\* function runs, the transaction is rolled back and the error is returned
\* with a nil result; the transaction is committed if and only if BeginTx
\* succeeded, every function returned no error and Commit succeeded, and all
\* the statements take effect then, none otherwise.
C38_TransactionAllOrNothing ==
  /\ \A j \in 1..Len(out.ran) : out.ran[j] = j
  /\ \A j \in 1..Len(out.received) :
       out.received[j] = IF j = 1 THEN NilResult ELSE <<j - 1>>
  /\ FailingFuncs # {} => Len(out.ran) <= FirstFailing
  /\ out.step # "returned" => out.db = <<>>
  /\ out.step = "returned" =>
       /\ out.tx = "committed" <=> out.err = <<>>
       /\ out.tx = "committed" <=>
            FailingFuncs = {} /\ out.err # ErrBeginTx /\ out.err # ErrCommit
       /\ out.tx = "committed" =>
            /\ out.ran = [j \in 1..Len(arg) |-> j]
            /\ out.db = [j \in 1..Len(arg) |-> j]
            /\ out.result = IF Len(arg) = 0 THEN NilResult ELSE <<Len(arg)>>
       /\ out.tx # "committed" => out.db = <<>> /\ out.result = NilResult
       /\ FailingFuncs # {} /\ out.err # ErrBeginTx =>
            /\ out.err = ErrFunc(FirstFailing)
            /\ out.ran = [j \in 1..FirstFailing |-> j]
            /\ out.tx = "rolled back"

\* the second of three functions has executed its statement and returned an
\* error: the call has returned it after the rollback
C38_Witness ==
  /\ out.step = "returned"
  /\ Len(arg) = 3
  /\ arg[1] = "statement" /\ arg[2] = "result and error" /\ arg[3] = "statement"
  /\ out.err = ErrFunc(2)
  /\ out.tx = "rolled back"

====
